---------------------------- MODULE Spec2Model ----------------------------
(***************************************************************************)
(* A model of the snippet template expander (bytebutcher/snippet).         *)
(*                                                                         *)
(* Text is modelled as TLA+ strings, one character per position, and the   *)
(* parsers work on characters exactly as the Python code does.  Offsets    *)
(* are Python offsets (0-based, end exclusive).                            *)
(*                                                                         *)
(* Library behaviour that is part of the model, not of the repository:     *)
(*   - str.splitlines is modelled for "\n" only (no "\r", no tabs occur);  *)
(*   - pyparsing's scanString over the placeholder grammar is modelled     *)
(*     without tab expansion and without escape conversion in quoted       *)
(*     strings (no tab and no backslash occurs inside a quoted argument);  *)
(*   - shlex.split is modelled for blanks, single quotes and backslash     *)
(*     escapes (no double quote occurs in a value).                        *)
(***************************************************************************)
EXTENDS Integers, Sequences, FiniteSets, TLC

VARIABLES
    template,         \* the pieces of the format string the caller passes
    argv,             \* the data_values tokens the caller passes
    format_string,    \* Snippet._format_string
    data,             \* Snippet.data / DataBuilder.data (the same object)
    pc,               \* "new" | "format" | "arguments" | "built" | "failed"
    minified,         \* DataBuilder._format_string_minified
    placeholders,     \* DataBuilder._placeholders
    row_table,        \* the row table transform_data returns
    output,           \* the list build() returns
    error,            \* the message of the exception raised, "" if none
    codec_calls,      \* the codec.run calls made: [codec, arguments]
    parsed_args,      \* main: the options parse_args returns ("" for None)
    stdin,            \* main: sys.stdin: [isatty, text]
    environ,          \* os.environ: a list of entries [k, v]
    stdout,           \* main: the lines printed to standard output
    exit_code,        \* main: the code of sys.exit, -1 while running
    logged,           \* main: the records Logger.error has written to sys.stderr
    codec_files,      \* the files under the codecs directories, as os.walk lists them
    config,           \* Config: how its construction ended, codecs, the warnings logged
    disk,             \* the files under the two templates roots: path -> content
    editor_calls      \* the files the editor was called with

vars == <<template, argv, format_string, data, pc, minified, placeholders,
          row_table, output, error, codec_calls, parsed_args, stdin, environ,
          stdout, exit_code, logged, codec_files, config, disk, editor_calls>>

\* What main leaves alone while it runs, and what the methods of Snippet do.
process == <<parsed_args, stdin, environ, codec_files, config>>
console == <<stdout, exit_code, logged>>
storage == <<disk, editor_calls>>

-----------------------------------------------------------------------------
(* Bounds of the model. *)

MaxPieces == 3
MaxArgs == 2
MaxEnv == 2
MaxFiles == 3

-----------------------------------------------------------------------------
(* Characters and Python string primitives. *)

Min(a, b) == IF a < b THEN a ELSE b
Max(a, b) == IF a > b THEN a ELSE b

\* s[i] for 0 <= i < len(s); "" outside.
Char(s, i) == IF i >= 0 /\ i < Len(s) THEN SubSeq(s, i + 1, i + 1) ELSE ""

\* s[a:b] for 0 <= a, 0 <= b.
Slice(s, a, b) == IF a >= Min(b, Len(s)) THEN "" ELSE SubSeq(s, a + 1, Min(b, Len(s)))

StartsWith(s, p) == Len(s) >= Len(p) /\ SubSeq(s, 1, Len(p)) = p
EndsWith(s, p) == Len(s) >= Len(p) /\ SubSeq(s, Len(s) - Len(p) + 1, Len(s)) = p

\* The least offset j >= i with s[j] in chars, len(s) when there is none.
FirstAt(s, i, chars) ==
    LET Least(hits) == IF hits = {} THEN Len(s)
                       ELSE CHOOSE j \in hits : \A k \in hits : j <= k
    IN  Least({j \in i..(Len(s) - 1) : Char(s, j) \in chars})

\* str.find(old): the least offset where old occurs in s, -1 when it does not.
Find(s, old) ==
    LET Least(hits) == IF hits = {} THEN -1
                       ELSE CHOOSE j \in hits : \A k \in hits : j <= k
    IN  Least({j \in 0..(Len(s) - Len(old)) : Slice(s, j, j + Len(old)) = old})

\* str.replace(old, new): leftmost, non-overlapping, a single pass.
RECURSIVE Replace(_, _, _)
Replace(s, old, new) ==
    LET At(k) == IF k < 0 THEN s
                 ELSE Slice(s, 0, k) \o new
                      \o Replace(Slice(s, k + Len(old), Len(s)), old, new)
    IN  At(Find(s, old))

LowerLetters == "abcdefghijklmnopqrstuvwxyz"
UpperLetters == "ABCDEFGHIJKLMNOPQRSTUVWXYZ"
Digits == "0123456789"

\* The 0-based offset of character c in s from offset i on, -1 when absent.
IndexIn(s, c, i) ==
    LET At(j) == IF j >= Len(s) THEN -1 ELSE j
    IN  At(FirstAt(s, i, {c}))

IsAlpha(c) == c # "" /\ (IndexIn(LowerLetters, c, 0) >= 0 \/ IndexIn(UpperLetters, c, 0) >= 0)
IsAlnumUnderscore(c) == IsAlpha(c) \/ (c # "" /\ IndexIn(Digits, c, 0) >= 0) \/ c = "_"

LowerChar(c) ==
    LET k == IndexIn(UpperLetters, c, 0) IN IF k >= 0 THEN Char(LowerLetters, k) ELSE c
UpperChar(c) ==
    LET k == IndexIn(LowerLetters, c, 0) IN IF k >= 0 THEN Char(UpperLetters, k) ELSE c

RECURSIVE Lower(_)
\* str.lower(), character by character, the string halved at each step.
Lower(s) ==
    IF Len(s) <= 1 THEN LowerChar(s)
    ELSE Lower(Slice(s, 0, Len(s) \div 2)) \o Lower(Slice(s, Len(s) \div 2, Len(s)))
RECURSIVE Upper(_)
Upper(s) ==
    IF Len(s) <= 1 THEN UpperChar(s)
    ELSE Upper(Slice(s, 0, Len(s) \div 2)) \o Upper(Slice(s, Len(s) \div 2, Len(s)))

RECURSIVE NatToStr(_)
NatToStr(n) ==
    IF n < 10 THEN Char(Digits, n) ELSE NatToStr(n \div 10) \o Char(Digits, n % 10)

RECURSIVE JoinStr(_, _)
\* sep.join(list)
JoinStr(list, sep) ==
    IF list = <<>> THEN ""
    ELSE IF Len(list) = 1 THEN list[1]
    ELSE list[1] \o sep \o JoinStr(Tail(list), sep)

RECURSIVE SplitKeepEnds(_)
\* str.splitlines(keepends=True)
SplitKeepEnds(s) ==
    LET Cut(k) == IF k >= Len(s) THEN <<s>>
                  ELSE <<Slice(s, 0, k + 1)>> \o SplitKeepEnds(Slice(s, k + 1, Len(s)))
    IN  IF s = "" THEN <<>> ELSE Cut(FirstAt(s, 0, {"\n"}))

StripEnd(line) == IF EndsWith(line, "\n") THEN SubSeq(line, 1, Len(line) - 1) ELSE line

\* str.splitlines()
SplitLines(s) ==
    LET Stripped(ls) == [i \in 1..Len(ls) |-> StripEnd(ls[i])] IN Stripped(SplitKeepEnds(s))

linesep == "\n"

IsComment(line) == StartsWith(line, "#")
NotComment(line) == ~IsComment(line)

-----------------------------------------------------------------------------
(* formatters.py: EscapedBracketCodec.  SO and SI stand for chr(14) and    *)
(* chr(15), the sentinels an escaped opener and closer are swapped to.     *)

SO == "^"
SI == "~"

\* A codec that leaves escaped brackets as they are.
NoEncoding(str, opener, closer) == str

EncodeBrackets(str, opener, closer) ==
    Replace(Replace(str, "\\" \o opener, SO), "\\" \o closer, SI)

DecodeBrackets(str, opener, closer) ==
    Replace(Replace(str, SO, "\\" \o opener), SI, "\\" \o closer)

-----------------------------------------------------------------------------
(* parsers.py: ParenthesesParser.  A part of the tree is a text (a leaf)   *)
(* or a list of parts; both have the same record shape.                    *)

TextPart(s) == [isList |-> FALSE, text |-> s, parts |-> <<>>]
ListPart(ps) == [isList |-> TRUE, text |-> "", parts |-> ps]

RECURSIVE ParseParenthesesFrom(_, _, _, _, _)
\* _parse_parentheses: the loop from offset i on, with the components
\* collected so far; j is the offset of the next bracket, where the loop
\* next does anything.  Returns the offset it stopped at and the components,
\* or unbalanced.
ParseParenthesesFrom(fs, i, start, balance, components) ==
    LET Text(to) == TextPart(DecodeBrackets(Slice(fs, start, to), "[", "]"))
        Nested(j, inner) ==
            IF inner.unbalanced THEN inner
            ELSE ParseParenthesesFrom(fs, inner.i + 1, inner.i + 1, balance,
                                      Append(IF j > 0 THEN Append(components, Text(j))
                                             ELSE components,
                                             ListPart(inner.components)))
        At(j) ==
            IF j >= Len(fs)
            THEN [unbalanced |-> FALSE, i |-> j, components |-> Append(components, Text(Len(fs)))]
            ELSE IF Char(fs, j) = "["
            THEN Nested(j, ParseParenthesesFrom(fs, j + 1, j + 1, balance + 1, <<>>))
            ELSE IF balance - 1 < 0
            THEN [unbalanced |-> TRUE, i |-> j, components |-> <<>>]
            ELSE [unbalanced |-> FALSE, i |-> j, components |-> Append(components, Text(j))]
    IN  At(IF i >= Len(fs) THEN i ELSE FirstAt(fs, i, {"[", "]"}))

\* ParenthesesParser.parse
ParseParentheses(fs) == ParseParenthesesFrom(EncodeBrackets(fs, "[", "]"), 0, 0, 0, <<>>)

-----------------------------------------------------------------------------
(* parsers.py: PlaceholderFormatParser, the grammar                        *)
(*   < NAME ["..."] ( "|" NAME ( ":" QUOTED )* )* ( "=" QUOTED )? >        *)
(* matched with no white space skipped (the pp.Combine) and no             *)
(* backtracking into a repetition, as pyparsing matches it.                *)

RECURSIVE WordEnd(_, _)
\* The offset after the run of name-body characters starting at offset i.
WordEnd(s, i) == IF IsAlnumUnderscore(Char(s, i)) THEN WordEnd(s, i + 1) ELSE i

\* name = pp.Word(pp.alphas, pp.alphanums + "_") at offset i: its end, or -1.
ParseName(s, i) == IF IsAlpha(Char(s, i)) THEN WordEnd(s, i + 1) ELSE -1

RECURSIVE QuoteClose(_, _, _)
\* The offset of the closing quote q from offset i on, -1 if a line ends first.
QuoteClose(s, q, i) ==
    IF i >= Len(s) \/ Char(s, i) = "\n" THEN -1
    ELSE IF Char(s, i) = q THEN i ELSE QuoteClose(s, q, i + 1)

\* quoted_string = pp.QuotedString("'") | pp.QuotedString('"') at offset i.
ParseQuoted(s, i) ==
    LET Closed(close) ==
            IF close < 0 THEN [ok |-> FALSE, end |-> i, text |-> ""]
            ELSE [ok |-> TRUE, end |-> close + 1, text |-> Slice(s, i + 1, close)]
    IN  Closed(IF Char(s, i) \in {"'", "\""} THEN QuoteClose(s, Char(s, i), i + 1) ELSE -1)

RECURSIVE ParseCodecArguments(_, _, _)
\* pp.ZeroOrMore(COLON + quoted_string)
ParseCodecArguments(s, i, arguments) ==
    LET Argument(quoted) ==
            IF Char(s, i) = ":" /\ quoted.ok
            THEN ParseCodecArguments(s, quoted.end, Append(arguments, quoted.text))
            ELSE [end |-> i, arguments |-> arguments]
    IN  Argument(ParseQuoted(s, i + 1))

RECURSIVE ParseCodecs(_, _, _)
\* codecs = pp.ZeroOrMore(pp.Group(PIPE + (name + ...))); models.py lower-cases
\* the codec name (PlaceholderFormat.__init__).
ParseCodecs(s, i, codecs) ==
    LET Codec(nameEnd) ==
            LET Collected(args) ==
                    ParseCodecs(s, args.end,
                                Append(codecs, [name |-> Lower(Slice(s, i + 1, nameEnd)),
                                                arguments |-> args.arguments]))
            IN  IF Char(s, i) = "|" /\ nameEnd >= 0
                THEN Collected(ParseCodecArguments(s, nameEnd, <<>>))
                ELSE [end |-> i, codecs |-> codecs]
    IN  Codec(ParseName(s, i + 1))

NoMatch == [ok |-> FALSE, end |-> 0, name |-> "", codecs |-> <<>>,
            hasDefault |-> FALSE, default |-> "", repeatable |-> FALSE]

\* placeholder_format matched at offset loc of s: the name, the optional
\* "...", the codecs, the optional default, the closing bracket.
ParsePlaceholderAt(s, loc) ==
    LET Close(nameEnd, repeatable, cs, hasDefault, quoted) ==
            IF Char(s, IF hasDefault THEN quoted.end ELSE cs.end) # ">" THEN NoMatch
            ELSE [ok |-> TRUE, end |-> (IF hasDefault THEN quoted.end ELSE cs.end) + 1,
                  name |-> Lower(Slice(s, loc + 1, nameEnd)),
                  codecs |-> cs.codecs,
                  hasDefault |-> hasDefault,
                  default |-> IF hasDefault THEN quoted.text ELSE "",
                  repeatable |-> repeatable]
        Default(nameEnd, repeatable, cs, quoted) ==
            Close(nameEnd, repeatable, cs, Char(s, cs.end) = "=" /\ quoted.ok, quoted)
        Codecs(nameEnd, repeatable, cs) ==
            Default(nameEnd, repeatable, cs, ParseQuoted(s, cs.end + 1))
        Repeatable(nameEnd, repeatable) ==
            Codecs(nameEnd, repeatable,
                   ParseCodecs(s, IF repeatable THEN nameEnd + 3 ELSE nameEnd, <<>>))
        Name(nameEnd) ==
            IF Char(s, loc) # "<" \/ nameEnd < 0 THEN NoMatch
            ELSE Repeatable(nameEnd, Slice(s, nameEnd, nameEnd + 3) = "...")
    IN  Name(ParseName(s, loc + 1))

\* models.py: PlaceholderFormat built from one scanString match.
PlaceholderFormat(m, start, required) ==
    [name |-> m.name, codecs |-> m.codecs, hasDefault |-> m.hasDefault,
     default |-> m.default, repeatable |-> m.repeatable, required |-> required,
     start |-> start, end |-> m.end]

RECURSIVE ScanString(_, _, _)
\* placeholder_format.scanString(s) from offset loc: the matches in order,
\* each with the offsets of its token in s.
ScanString(s, loc, required) ==
    LET Matched(lt, m) ==
            IF m.ok
            THEN <<PlaceholderFormat(m, lt, required)>> \o ScanString(s, m.end, required)
            ELSE ScanString(s, lt + 1, required)
        \* No match starts before the next opening bracket.
        At(lt) == IF lt >= Len(s) THEN <<>> ELSE Matched(lt, ParsePlaceholderAt(s, lt))
    IN  At(FirstAt(s, loc, {"<"}))

\* _parse_part: the placeholders of one text part at nesting depth i.  The
\* offsets are those scanString reports, in the text it was given.
ParsePart(part, i) == ScanString(EncodeBrackets(part, "<", ">"), 0, i = 0)

RECURSIVE ParseParts(_, _)
\* _parse_parts
ParseParts(parts, i) ==
    IF parts = <<>> THEN <<>>
    ELSE (IF parts[1].isList THEN ParseParts(parts[1].parts, i + 1)
          ELSE ParsePart(parts[1].text, i))
         \o ParseParts(Tail(parts), i)

\* PlaceholderFormatParser.parse; raises when the brackets are unbalanced.
ParsePlaceholders(fs) ==
    LET Parsed(tree) ==
            [unbalanced |-> tree.unbalanced,
             placeholders |-> IF tree.unbalanced THEN <<>>
                              ELSE ParseParts(tree.components, 0)]
    IN  Parsed(ParseParentheses(fs))

-----------------------------------------------------------------------------
(* models.py: Data, an insertion-ordered map from a key to a list.  An     *)
(* entry is [k |-> key, v |-> list]; a key exists once something was       *)
(* appended under it (the defaultdict creates it on first access).         *)

Keys(d) == [i \in 1..Len(d) |-> d[i].k]
HasKey(d, key) == \E i \in 1..Len(d) : d[i].k = key
KeyIndex(d, key) == CHOOSE i \in 1..Len(d) : d[i].k = key
Get(d, key) == d[KeyIndex(d, key)].v

\* self[key].append(item)
AppendItem(d, key, item) ==
    IF HasKey(d, key)
    THEN [d EXCEPT ![KeyIndex(d, key)].v = Append(@, item)]
    ELSE Append(d, [k |-> key, v |-> <<item>>])

RECURSIVE AppendItems(_, _, _)
AppendItems(d, key, items) ==
    IF items = <<>> THEN d
    ELSE AppendItems(AppendItem(d, key, items[1]), key, Tail(items))

\* d[key] = list
SetKey(d, key, list) ==
    IF HasKey(d, key)
    THEN [d EXCEPT ![KeyIndex(d, key)].v = list]
    ELSE Append(d, [k |-> key, v |-> list])

\* d.pop(key)
RemoveKey(d, key) == SelectSeq(d, LAMBDA e : e.k # key)

IsBlank(c) == c = " " \/ c = "\n"

RECURSIVE ShlexFrom(_, _, _, _, _)
\* shlex.split(s) in POSIX mode: state is "ws" (between tokens), "word",
\* "quote" (inside '...') or "escape" (after a backslash).
ShlexFrom(s, state, token, quoted, tokens) ==
    LET c == IF s = "" THEN "" ELSE Head(s)
        rest == IF s = "" THEN "" ELSE Tail(s)
        emitted == IF token # "" \/ quoted THEN Append(tokens, token) ELSE tokens
    IN  IF s = ""
        THEN IF state = "quote" \/ state = "escape"
             THEN [ok |-> FALSE, tokens |-> <<>>]     \* ValueError
             ELSE [ok |-> TRUE, tokens |-> emitted]
        ELSE IF state = "quote"
        THEN IF c = "'" THEN ShlexFrom(rest, "word", token, TRUE, tokens)
             ELSE ShlexFrom(rest, "quote", token \o c, TRUE, tokens)
        ELSE IF state = "escape"
        THEN ShlexFrom(rest, "word", token \o c, quoted, tokens)
        ELSE IF IsBlank(c)
        THEN ShlexFrom(rest, "ws", "", FALSE, emitted)
        ELSE IF c = "'" THEN ShlexFrom(rest, "quote", token, TRUE, tokens)
        ELSE IF c = "\\" THEN ShlexFrom(rest, "escape", token, quoted, tokens)
        ELSE ShlexFrom(rest, "word", token \o c, quoted, tokens)

ShlexSplit(s) == ShlexFrom(s, "ws", "", FALSE, <<>>)

IsListLiteral(values) == StartsWith(values, "\\(") /\ EndsWith(values, "\\)")

\* Data.append(placeholder, values) for a string: a value of the shape
\* \( ... \) is split into its words.  ok is FALSE when shlex raises.
DataAppend(d, placeholder, values) ==
    LET key == Lower(placeholder)
        split == ShlexSplit(Slice(values, 2, Len(values) - 2))
    IN  IF IsListLiteral(values)
        THEN [ok |-> split.ok,
              data |-> IF split.ok THEN AppendItems(d, key, split.tokens) ELSE d]
        ELSE [ok |-> TRUE, data |-> AppendItem(d, key, values)]

\* Data.append(placeholder, values) for a list: every item is appended as it is.
DataAppendList(d, placeholder, values) == AppendItems(d, Lower(placeholder), values)

-----------------------------------------------------------------------------
(* parsers.py: FormatStringParser, the minifier.  arguments maps a name to *)
(* whether its value is non-empty: [defined |-> names, nonEmpty |-> names]. *)

\* A minifier for which every placeholder resolves: no section is dropped.
EveryPlaceholderResolves(phs, arguments, required) == TRUE

RECURSIVE PlaceholdersResolve(_, _, _)
\* The loop over the placeholders of one text part in _remove_optionals:
\* FALSE when the part makes _remove_optionals return [].
PlaceholdersResolve(phs, arguments, required) ==
    IF phs = <<>> THEN TRUE
    ELSE LET p == phs[1]
             not_defined == p.name \notin arguments.defined
                            /\ ~(p.hasDefault /\ p.default # "")
             has_empty_argument == p.name \in arguments.defined
                                   /\ p.name \notin arguments.nonEmpty
         IN  IF not_defined THEN FALSE
             ELSE IF has_empty_argument /\ ~required THEN FALSE
             ELSE PlaceholdersResolve(Tail(phs), arguments, required)

RECURSIVE DropWithNested(_, _, _, _)
\* _remove_optionals where a dropped nested section drops the section
\* around it.
DropWithNested(parts, arguments, required, result) ==
    IF parts = <<>> THEN [gone |-> FALSE, parts |-> result]
    ELSE IF parts[1].isList
    THEN LET inner == DropWithNested(parts[1].parts, arguments, FALSE, <<>>)
         IN  IF inner.gone /\ ~required THEN [gone |-> TRUE, parts |-> <<>>]
             ELSE DropWithNested(Tail(parts), arguments, required,
                                 Append(result, ListPart(IF inner.gone THEN <<>>
                                                         ELSE inner.parts)))
    ELSE IF PlaceholdersResolve(ParsePlaceholders(parts[1].text).placeholders,
                                arguments, required)
    THEN DropWithNested(Tail(parts), arguments, required, Append(result, parts[1]))
    ELSE [gone |-> TRUE, parts |-> <<>>]

RECURSIVE RemoveOptionals(_, _, _, _)
\* FormatStringParser._remove_optionals(parts, arguments, required), with the
\* result collected so far.  gone stands for the early "return []".
RemoveOptionals(parts, arguments, required, result) ==
    IF parts = <<>> THEN [gone |-> FALSE, parts |-> result]
    ELSE IF parts[1].isList
    THEN LET inner == RemoveOptionals(parts[1].parts, arguments, FALSE, <<>>)
         IN  RemoveOptionals(Tail(parts), arguments, required,
                             Append(result, ListPart(IF inner.gone THEN <<>> ELSE inner.parts)))
    ELSE IF PlaceholdersResolve(ParsePlaceholders(parts[1].text).placeholders,
                                arguments, required)
    THEN RemoveOptionals(Tail(parts), arguments, required, Append(result, parts[1]))
    ELSE [gone |-> TRUE, parts |-> <<>>]

RECURSIVE FlattenList(_)
\* "".join(self._flatten_list(lst))
FlattenList(lst) ==
    IF lst = <<>> THEN ""
    ELSE (IF lst[1].isList THEN FlattenList(lst[1].parts) ELSE lst[1].text)
         \o FlattenList(Tail(lst))

\* One line of FormatStringParser.parse: what is appended to lines for it.
MinifyLine(line, format_string_, arguments) ==
    LET Essentials(essentials) ==
            IF essentials.gone THEN [unbalanced |-> FALSE, text |-> format_string_]
            ELSE [unbalanced |-> FALSE, text |-> FlattenList(essentials.parts)]
        Parsed(parentheses) ==
            IF parentheses.unbalanced THEN [unbalanced |-> TRUE, text |-> ""]
            ELSE Essentials(RemoveOptionals(parentheses.components, arguments, TRUE, <<>>))
    IN  IF IsComment(line) THEN [unbalanced |-> FALSE, text |-> line]
        ELSE Parsed(ParseParentheses(line))

\* FormatStringParser.parse(format_string, arguments)
FormatStringParse(format_string_, arguments) ==
    LET Joined(done) ==
            [unbalanced |-> \E i \in 1..Len(done) : done[i].unbalanced,
             text |-> JoinStr([i \in 1..Len(done) |-> done[i].text], linesep)]
        Lines(lines) ==
            Joined([i \in 1..Len(lines) |-> MinifyLine(lines[i], format_string_, arguments)])
    IN  Lines(SplitLines(format_string_))

-----------------------------------------------------------------------------
(* config.py and the profile: the reserved placeholders and the codecs.    *)

\* Profile.placeholder_values, each with the value its callback returns in
\* this run (.snippet/snippet_profile.py: the current date as %Y%m%d, the
\* current date and time as %Y%m%d%H%M%S).
ProfilePlaceholderValues ==
    <<[name |-> "date", element |-> "20261103"],
      [name |-> "date_time", element |-> "20261103093000"]>>

\* Config.get_reserved_placeholder_names
ReservedPlaceholderNames ==
    {ProfilePlaceholderValues[i].name : i \in 1..Len(ProfilePlaceholderValues)}

RECURSIVE ReservedValuesFrom(_, _)
ReservedValuesFrom(pvs, d) ==
    IF pvs = <<>> THEN d
    ELSE ReservedValuesFrom(Tail(pvs), DataAppend(d, pvs[1].name, pvs[1].element).data)

\* Config.get_reserved_placeholder_values
ReservedPlaceholderValues == ReservedValuesFrom(ProfilePlaceholderValues, <<>>)

\* Config.codecs: the registry, keyed by the plugin's file name.  kind is the
\* base class of the plugin, parameters what signature(codec.run) counts
\* without the input, name the attribute Codec.__init__ sets: the class name,
\* and every plugin class is called Codec.
CodecRegistry ==
    [squote   |-> [kind |-> "StringCodec", parameters |-> 0, name |-> "Codec"],
     capfirst |-> [kind |-> "StringCodec", parameters |-> 0, name |-> "Codec"],
     join     |-> [kind |-> "ListCodec",   parameters |-> 1, name |-> "Codec"],
     first    |-> [kind |-> "ListCodec",   parameters |-> 0, name |-> "Codec"],
     length   |-> [kind |-> "Codec",       parameters |-> 0, name |-> "Codec"]]

CodecNames == DOMAIN CodecRegistry

\* The code points of the characters names are made of, in their order.
CodePoints == Digits \o UpperLetters \o "_" \o LowerLetters

RECURSIVE StrLess(_, _)
\* a < b for two str.
StrLess(a, b) ==
    IF b = "" THEN FALSE
    ELSE IF a = "" THEN TRUE
    ELSE IF Char(a, 0) = Char(b, 0)
    THEN StrLess(Slice(a, 1, Len(a)), Slice(b, 1, Len(b)))
    ELSE IndexIn(CodePoints, Char(a, 0), 0) < IndexIn(CodePoints, Char(b, 0), 0)

RECURSIVE Sorted(_)
\* sorted(names) for a set of str.
Sorted(names) ==
    IF names = {} THEN <<>>
    ELSE LET least == CHOOSE x \in names : \A y \in names \ {x} : StrLess(x, y)
         IN  <<least>> \o Sorted(names \ {least})

RECURSIVE LoadCodecs(_, _, _)
\* Config._load_codecs over the files os.walk lists, with the registry and
\* the warnings logged so far.  A file is [dir, name, ext, valid]: dir is
\* its directory below the codecs directory ("" for the directory itself,
\* the only one on sys.path), valid whether its module has a Codec class
\* that can be constructed.  raised is the exception that leaves the
\* method: Logger has no method exception, so the handler of a failed load
\* raises AttributeError after it logged the warning.
LoadCodecs(files, codecs, warnings) ==
    IF files = <<>> THEN [raised |-> "", codecs |-> codecs, warnings |-> warnings]
    ELSE IF files[1].ext # ".py" THEN LoadCodecs(Tail(files), codecs, warnings)
    ELSE IF files[1].dir = "" /\ files[1].valid
    THEN LoadCodecs(Tail(files), codecs \cup {files[1].name}, warnings)
    ELSE [raised |-> "'Logger' object has no attribute 'exception'",
          codecs |-> codecs,
          warnings |-> Append(warnings, "Loading codec " \o files[1].name \o " failed!")]

\* Config.__init__: the state Config is in, its codecs, the warnings.
NewConfig(files) ==
    LET Loaded(r) ==
            [state |-> IF r.raised = "" THEN "constructed" ELSE "raised",
             raised |-> r.raised,
             codecs |-> IF r.raised = "" THEN r.codecs ELSE {},
             warnings |-> r.warnings]
    IN  Loaded(LoadCodecs(files, {}, <<>>))

\* Before Config is constructed.
NoConfig == [state |-> "new", raised |-> "", codecs |-> {}, warnings |-> <<>>]

-----------------------------------------------------------------------------
(* The codec plugins (.snippet/codecs/*.py) and codecs.py: CodecRunner.    *)

\* squote.py, capfirst.py: Codec.run of a StringCodec.
RunStringCodec(codec, value) ==
    IF codec = "squote" THEN "'" \o value \o "'"
    ELSE \* capfirst: value and value[0].upper() + value[1:]
         IF value = "" THEN "" ELSE UpperChar(Head(value)) \o Tail(value)

\* join.py, first.py: Codec.run of a ListCodec; the result is a list.
RunListCodec(codec, values, arguments) ==
    IF codec = "join" THEN <<JoinStr(values, arguments[1])>>
    ELSE \* first
         IF values = <<>> THEN <<"">> ELSE <<values[1]>>

\* length.py: Codec.run of a plain Codec, given a string or a list: str(len(value)).
RunLengthCodec(value) == NatToStr(Len(value))

\* str(arguments) in the message of run_codec
ArgumentsRepr(arguments) ==
    "[" \o JoinStr([i \in 1..Len(arguments) |-> "'" \o arguments[i] \o "'"], ", ") \o "]"

\* run_codec: the check of the number of arguments.  "" when the codec may
\* run, else the message of the exception run_codec raises, which it prefixes
\* with codec.name.
RunCodecError(codec, arguments) ==
    LET expected_parameters == CodecRegistry[codec].parameters
        actual_parameters == Len(arguments)
    IN  IF expected_parameters # actual_parameters
        THEN CodecRegistry[codec].name \o ": Expected " \o NatToStr(expected_parameters)
             \o " parameters, got " \o NatToStr(actual_parameters) \o ", "
             \o ArgumentsRepr(arguments) \o "!"
        ELSE ""

\* self._codecs[name] for a name that is not a key: the KeyError's text.
KeyError(name) == "'" \o name \o "'"

Called(calls, c) == calls \cup {<<c.name, Len(c.arguments)>>}

RECURSIVE MapStringCodec(_, _)
MapStringCodec(codec, values) ==
    IF values = <<>> THEN <<>>
    ELSE <<RunStringCodec(codec, values[1])>> \o MapStringCodec(codec, Tail(values))

RECURSIVE RunOnList(_, _, _)
\* CodecRunner.run for a repeatable placeholder: the loop over its codecs.
\* Returns the error ("" if none), the values and the codec.run calls made.
RunOnList(values, codecs, calls) ==
    IF codecs = <<>> THEN [error |-> "", values |-> values, calls |-> calls]
    ELSE LET c == codecs[1]
             kind == CodecRegistry[c.name].kind
             bad == RunCodecError(c.name, c.arguments)
         IN  IF c.name \notin CodecNames
             THEN [error |-> KeyError(c.name), values |-> <<>>, calls |-> calls]
             ELSE IF kind = "StringCodec" /\ values = <<>>
             THEN RunOnList(values, Tail(codecs), calls)
             ELSE IF bad # "" THEN [error |-> bad, values |-> <<>>, calls |-> calls]
             ELSE IF kind = "StringCodec"
             THEN RunOnList(MapStringCodec(c.name, values), Tail(codecs), Called(calls, c))
             ELSE IF kind = "ListCodec"
             THEN RunOnList(RunListCodec(c.name, values, c.arguments), Tail(codecs),
                            Called(calls, c))
             ELSE RunOnList(<<RunLengthCodec(values)>>, Tail(codecs), Called(calls, c))

RECURSIVE RunRightToLeft(_, _, _)
\* A loop that applies the string codecs from the last to the first.
RunRightToLeft(value, codecs, calls) ==
    IF codecs = <<>> THEN [error |-> "", value |-> value, calls |-> calls]
    ELSE RunRightToLeft(RunStringCodec(codecs[Len(codecs)].name, value),
                        SubSeq(codecs, 1, Len(codecs) - 1), calls)

RECURSIVE RunOnString(_, _, _)
\* CodecRunner.run for a single value: the loop over its codecs.
RunOnString(value, codecs, calls) ==
    IF codecs = <<>> THEN [error |-> "", value |-> value, calls |-> calls]
    ELSE LET c == codecs[1]
             kind == CodecRegistry[c.name].kind
             bad == RunCodecError(c.name, c.arguments)
         IN  IF c.name \notin CodecNames
             THEN [error |-> KeyError(c.name), value |-> "", calls |-> calls]
             ELSE IF bad # "" THEN [error |-> bad, value |-> "", calls |-> calls]
             ELSE IF kind = "StringCodec"
             THEN RunOnString(RunStringCodec(c.name, value), Tail(codecs), Called(calls, c))
             ELSE IF kind = "ListCodec"
             THEN RunOnString(JoinStr(RunListCodec(c.name, <<value>>, c.arguments), " "),
                              Tail(codecs), Called(calls, c))
             ELSE RunOnString(RunLengthCodec(value), Tail(codecs), Called(calls, c))

\* CodecRunner.run(row_item, placeholder): row_item is a list exactly for the
\* cells of a "name..." column.  Returns the error, the text and the calls.
CodecRun(row_item, placeholder, calls) ==
    LET Joined(r) == [error |-> r.error, text |-> JoinStr(r.values, " "), calls |-> r.calls]
        Single(r) == [error |-> r.error, text |-> r.value, calls |-> r.calls]
    IN  IF placeholder.repeatable
        THEN Joined(RunOnList(row_item, placeholder.codecs, calls))
        ELSE Single(RunOnString(row_item, placeholder.codecs, calls))

-----------------------------------------------------------------------------
(* processing.py: DataBuilder.                                             *)

\* DataBuilder._remove_comments
RemoveComments(string) == JoinStr(SelectSeq(SplitLines(string), NotComment), linesep)

RECURSIVE DefaultsAlwaysCollected(_, _)
\* A first loop that appends every default, whether or not the name has a key.
DefaultsAlwaysCollected(phs, d) ==
    LET Appended(r) ==
            IF r.ok THEN DefaultsAlwaysCollected(Tail(phs), r.data) ELSE [ok |-> FALSE, data |-> d]
    IN  IF phs = <<>> THEN [ok |-> TRUE, data |-> d]
        ELSE IF phs[1].hasDefault
        THEN Appended(DataAppend(d, phs[1].name, phs[1].default))
        ELSE DefaultsAlwaysCollected(Tail(phs), d)

RECURSIVE CollectDefaults(_, _)
\* _minify_format_string, the first loop: a default is appended for a name
\* that has no key in data yet.  ok is FALSE when Data.append raises.
CollectDefaults(phs, d) ==
    LET Appended(r) ==
            IF r.ok THEN CollectDefaults(Tail(phs), r.data) ELSE [ok |-> FALSE, data |-> d]
    IN  IF phs = <<>> THEN [ok |-> TRUE, data |-> d]
        ELSE IF phs[1].hasDefault /\ ~HasKey(d, phs[1].name)
        THEN Appended(DataAppend(d, phs[1].name, phs[1].default))
        ELSE CollectDefaults(Tail(phs), d)

\* Parameters that count every key of data as non-empty.
ParametersNeverEmpty(d) ==
    [defined |-> {d[i].k : i \in 1..Len(d)} \cup ReservedPlaceholderNames,
     nonEmpty |-> {d[i].k : i \in 1..Len(d)} \cup ReservedPlaceholderNames]

\* _minify_format_string, the parameters: the keys of data, TRUE unless the
\* value list is [""], and the reserved names, always TRUE.
Parameters(d) ==
    [defined |-> {d[i].k : i \in 1..Len(d)} \cup ReservedPlaceholderNames,
     nonEmpty |-> {d[i].k : i \in {j \in 1..Len(d) : d[j].v # <<"">>}}
                  \cup ReservedPlaceholderNames]

\* DataBuilder.__init__ without the loop that collects the defaults.
BuilderWithoutDefaults(format_string_, d) ==
    LET failed(msg, dd) == [error |-> msg, data |-> dd, minified |-> "", placeholders |-> <<>>]
        Final(parsed, final) ==
            IF parsed.unbalanced \/ final.unbalanced
            THEN failed("Unbalanced parentheses!", d)
            ELSE [error |-> "", data |-> d, minified |-> parsed.text,
                  placeholders |-> final.placeholders]
        Minified(parsed) == Final(parsed, ParsePlaceholders(RemoveComments(parsed.text)))
    IN  IF ParsePlaceholders(RemoveComments(format_string_)).unbalanced
        THEN failed("Unbalanced parentheses!", d)
        ELSE Minified(FormatStringParse(format_string_, Parameters(d)))

\* DataBuilder.__init__: the minified format string, the placeholders parsed
\* from it, and data with the defaults collected; or the error raised.
NewDataBuilder(format_string_, d) ==
    LET failed(msg, dd) == [error |-> msg, data |-> dd, minified |-> "", placeholders |-> <<>>]
        Final(defaults, parsed, final) ==
            IF parsed.unbalanced \/ final.unbalanced
            THEN failed("Unbalanced parentheses!", defaults.data)
            ELSE [error |-> "", data |-> defaults.data, minified |-> parsed.text,
                  placeholders |-> final.placeholders]
        Minified(defaults, parsed) ==
            Final(defaults, parsed, ParsePlaceholders(RemoveComments(parsed.text)))
        Defaults(defaults) ==
            IF ~defaults.ok THEN failed("No closing quotation", defaults.data)
            ELSE Minified(defaults, FormatStringParse(format_string_, Parameters(defaults.data)))
        First(first) ==
            IF first.unbalanced THEN failed("Unbalanced parentheses!", d)
            ELSE Defaults(CollectDefaults(first.placeholders, d))
    IN  First(ParsePlaceholders(RemoveComments(format_string_)))

RECURSIVE AssignDefaults(_, _)
\* DataBuilder._assign_defaults
AssignDefaults(phs, d) ==
    LET Appended(r) ==
            IF r.ok THEN AssignDefaults(Tail(phs), r.data) ELSE [ok |-> FALSE, data |-> d]
    IN  IF phs = <<>> THEN [ok |-> TRUE, data |-> d]
        ELSE IF ~HasKey(d, phs[1].name) /\ phs[1].hasDefault /\ phs[1].default # ""
        THEN Appended(DataAppend(d, phs[1].name, phs[1].default))
        ELSE AssignDefaults(Tail(phs), d)

\* A build that validates no codec name.
NoCodecValidated(phs, format_string_) == ""

RECURSIVE MissingCodec(_)
\* DataBuilder._validate_codecs: the first codec name that is not in the
\* registry, "" when there is none.
MissingCodec(codecs) ==
    IF codecs = <<>> THEN ""
    ELSE IF codecs[1].name \notin CodecNames THEN codecs[1].name
    ELSE MissingCodec(Tail(codecs))

RECURSIVE AllCodecs(_)
AllCodecs(phs) == IF phs = <<>> THEN <<>> ELSE phs[1].codecs \o AllCodecs(Tail(phs))

ValidateCodecs(phs, format_string_) ==
    LET missing == MissingCodec(AllCodecs(phs)) IN
    IF missing = "" THEN ""
    ELSE "Parsing '" \o format_string_ \o "' failed! Codec '" \o missing \o "' does not exist!"

\* DataBuilder._get_placeholder_names
PlaceholderNames(phs) == {phs[i].name : i \in 1..Len(phs)}

RECURSIVE Dedupe(_, _)
\* OrderedDict.fromkeys(value): duplicates removed, order kept.
Dedupe(list, seen) ==
    IF list = <<>> THEN <<>>
    ELSE IF list[1] \in seen THEN Dedupe(Tail(list), seen)
    ELSE <<list[1]>> \o Dedupe(Tail(list), seen \cup {list[1]})

RECURSIVE MergeReserved(_, _, _)
MergeReserved(reserved, names, temporary_data) ==
    IF reserved = <<>> THEN temporary_data
    ELSE MergeReserved(Tail(reserved), names,
                       IF reserved[1].k \in names
                       THEN SetKey(temporary_data, reserved[1].k, Dedupe(reserved[1].v, {}))
                       ELSE temporary_data)

\* A transform for which no name has only repeatable occurrences.
NeverAllRepeatable(phs, name) == FALSE

\* The names all of whose placeholders are repeatable, and those with a
\* repeatable placeholder at all.
AllRepeatable(phs, name) ==
    /\ \E i \in 1..Len(phs) : phs[i].name = name /\ phs[i].repeatable
    /\ \A i \in 1..Len(phs) : phs[i].name = name => phs[i].repeatable
SomeRepeatable(phs, name) == \E i \in 1..Len(phs) : phs[i].name = name /\ phs[i].repeatable

RECURSIVE Product(_)
\* itertools.product(*lists): the first list varies slowest.
Product(lists) ==
    IF lists = <<>> THEN << <<>> >>
    ELSE LET rest == Product(Tail(lists))
             RECURSIVE Rows(_)
             Rows(xs) == IF xs = <<>> THEN <<>>
                         ELSE [j \in 1..Len(rest) |-> <<xs[1]>> \o rest[j]] \o Rows(Tail(xs))
         IN  Rows(lists[1])

\* table_data.append(data_keys[j], data_matrix[i][j]): Data.append of a string.
TableAppendValue(table_data, key, value) == DataAppend(table_data, key, value)

RECURSIVE TableAppendRow(_, _, _, _)
\* The inner loops of transform_data for one row of the matrix.
TableAppendRow(table_data, data_keys, row, repeatable_placeholders) ==
    LET Appended(r) ==
            IF r.ok THEN TableAppendRow(r.data, Tail(data_keys), Tail(row),
                                        repeatable_placeholders)
            ELSE [ok |-> FALSE, data |-> table_data]
    IN  IF data_keys # <<>>
        THEN Appended(TableAppendValue(table_data, data_keys[1], row[1]))
        ELSE IF repeatable_placeholders # <<>>
        THEN TableAppendRow(DataAppendList(table_data,
                                           repeatable_placeholders[1].k \o "...",
                                           <<repeatable_placeholders[1].v>>),
                            <<>>, <<>>, Tail(repeatable_placeholders))
        ELSE [ok |-> TRUE, data |-> table_data]

RECURSIVE TableAppendRows(_, _, _, _)
TableAppendRows(table_data, data_keys, data_matrix, repeatable_placeholders) ==
    LET Appended(r) ==
            IF r.ok THEN TableAppendRows(r.data, data_keys, Tail(data_matrix),
                                         repeatable_placeholders)
            ELSE r
    IN  IF data_matrix = <<>> THEN [ok |-> TRUE, data |-> table_data]
        ELSE Appended(TableAppendRow(table_data, data_keys, data_matrix[1],
                                     repeatable_placeholders))

\* transform_data, up to the matrix: the data that takes part in the product.
TemporaryData(d, phs) ==
    LET names == PlaceholderNames(phs) IN
    SelectSeq(d, LAMBDA e : e.k \in names)

\* transform_data without its check of the reserved names.
NoReservedConflicts(temporary_data) == <<>>

\* The names in conflict with the profile, in the order of the profile.
ReservedConflicts(temporary_data) ==
    SelectSeq(Keys(ReservedPlaceholderValues), LAMBDA k : HasKey(temporary_data, k))

\* DataBuilder.transform_data: the row table, or the error raised.
TransformData(d, phs) ==
    LET Table(data_matrix, table) ==
            IF ~table.ok THEN [error |-> "No closing quotation", table |-> <<>>, rows |-> 0]
            ELSE [error |-> "", table |-> table.data, rows |-> Len(data_matrix)]
        Matrix(temporary_data, repeatable_placeholders, data_matrix) ==
            Table(data_matrix,
                  TableAppendRows(<<>>, Keys(temporary_data), data_matrix,
                                  repeatable_placeholders))
        Split(temporary_data, repeatable_placeholders) ==
            Matrix(temporary_data, repeatable_placeholders,
                   Product([i \in 1..Len(temporary_data) |-> temporary_data[i].v]))
        Merged(merged) ==
            Split(SelectSeq(merged, LAMBDA e : ~AllRepeatable(phs, e.k)),
                  SelectSeq(merged, LAMBDA e : SomeRepeatable(phs, e.k)))
        Checked(assigned, conflicts) ==
            IF conflicts # <<>>
            THEN [error |-> JoinStr([i \in 1..Len(conflicts) |-> "<" \o conflicts[i] \o ">"],
                                    ", ")
                            \o " is/are already defined in your profile!",
                  table |-> <<>>, rows |-> 0]
            ELSE Merged(MergeReserved(ReservedPlaceholderValues, PlaceholderNames(phs),
                                      assigned))
        Assigned(assigned) == Checked(assigned, ReservedConflicts(assigned))
    IN  Assigned(TemporaryData(d, phs))

\* DataBuilder._validate_required_placeholders: the message, "" if none is missing.
RECURSIVE UnsetRequired(_, _)
UnsetRequired(phs, table) ==
    IF phs = <<>> THEN <<>>
    ELSE (IF ~HasKey(table, phs[1].name) /\ phs[1].required
             /\ ~HasKey(table, phs[1].name \o "...")
          THEN <<phs[1].name>> ELSE <<>>)
         \o UnsetRequired(Tail(phs), table)

\* A validation that reports the first missing placeholder only.
FirstMissingOnly(phs, table) ==
    LET First(unset_placeholders) ==
            IF unset_placeholders = <<>> THEN ""
            ELSE "Missing data for <" \o unset_placeholders[1] \o ">!"
    IN  First(UnsetRequired(phs, table))

\* DataBuilder._validate_required_placeholders: the message, "" if it passes.
ValidateRequiredPlaceholders(phs, table) ==
    LET unset_placeholders == Dedupe(UnsetRequired(phs, table), {}) IN
    IF unset_placeholders = <<>> THEN ""
    ELSE "Missing data for "
         \o JoinStr([i \in 1..Len(unset_placeholders) |-> "<" \o unset_placeholders[i] \o ">"],
                    ", ")
         \o "!"

\* DataBuilder._escape_brackets
EscapeBrackets(str) ==
    Replace(Replace(Replace(Replace(str, "[", "\\["), "]", "\\]"), "<", "\\<"), ">", "\\>")

\* DataBuilder._unescape_brackets
UnescapeBrackets(str) ==
    Replace(Replace(Replace(Replace(str, "\\[", "["), "\\]", "]"), "\\<", "<"), "\\>", ">")

\* utils.py: replace_within
ReplaceWithin(string, replacement, start, end) ==
    Slice(string, 0, start) \o replacement \o Slice(string, end, Len(string))

RECURSIVE ReplacePlaceholdersInLine(_, _, _, _, _, _, _)
\* DataBuilder._replace_placeholders_in_line; reversed_ is the placeholders
\* still to visit, last first.  iteration is 0-based.
ReplacePlaceholdersInLine(line, reversed_, data_frame, line_start, line_end, iteration, calls) ==
    LET Replaced(placeholder, run) ==
            IF run.error # "" THEN [error |-> run.error, line |-> line, calls |-> run.calls]
            ELSE ReplacePlaceholdersInLine(
                     ReplaceWithin(line, EscapeBrackets(run.text),
                                   placeholder.start - line_start,
                                   placeholder.end - line_start),
                     Tail(reversed_), data_frame, line_start, line_end, iteration, run.calls)
        Row(placeholder, row) ==
            IF iteration >= Len(row)
            THEN [error |-> "list index out of range", line |-> line, calls |-> calls]
            ELSE Replaced(placeholder, CodecRun(row[iteration + 1], placeholder, calls))
        Key(placeholder, key) ==
            Row(placeholder, IF HasKey(data_frame, key) THEN Get(data_frame, key) ELSE <<>>)
        Placeholder(placeholder) ==
            IF ~(line_start <= placeholder.start /\ placeholder.start < line_end)
            THEN ReplacePlaceholdersInLine(line, Tail(reversed_), data_frame, line_start,
                                           line_end, iteration, calls)
            ELSE Key(placeholder, IF placeholder.repeatable THEN placeholder.name \o "..."
                                  ELSE placeholder.name)
    IN  IF reversed_ = <<>> THEN [error |-> "", line |-> line, calls |-> calls]
        ELSE Placeholder(reversed_[1])

Reverse(s) == [i \in 1..Len(s) |-> s[Len(s) + 1 - i]]

RECURSIVE ProcessLines(_, _, _, _, _, _, _)
\* _process_format_string: the loop over the lines for one iteration.
ProcessLines(lines, line_start, processed, phs, data_frame, iteration, calls) ==
    LET Replaced(line_end, r) ==
            IF r.error # "" THEN [error |-> r.error, text |-> "", calls |-> r.calls]
            ELSE ProcessLines(Tail(lines), line_end, processed \o r.line, phs, data_frame,
                              iteration, r.calls)
        Line(line_end) ==
            Replaced(line_end,
                     ReplacePlaceholdersInLine(lines[1], Reverse(phs), data_frame, line_start,
                                               line_end, iteration, calls))
    IN  IF lines = <<>> THEN [error |-> "", text |-> processed, calls |-> calls]
        ELSE IF IsComment(lines[1])
        THEN ProcessLines(Tail(lines), line_start, processed \o lines[1], phs, data_frame,
                          iteration, calls)
        ELSE Line(line_start + Len(lines[1]))

RECURSIVE ProcessIterations(_, _, _, _, _, _, _)
ProcessIterations(format_string_, data_frame, phs, iteration, num_iterations, result, calls) ==
    LET Processed(r) ==
            IF r.error # "" THEN [error |-> r.error, result |-> <<>>, calls |-> r.calls]
            ELSE ProcessIterations(format_string_, data_frame, phs, iteration + 1,
                                   num_iterations, Append(result, r.text), r.calls)
    IN  IF iteration >= num_iterations
        THEN [error |-> "", result |-> result, calls |-> calls]
        ELSE Processed(ProcessLines(SplitKeepEnds(format_string_), 0, "", phs, data_frame,
                                    iteration, calls))

\* num_iterations = len(next(iter(data_frame.values()), []))
NumIterations(data_frame) == IF data_frame = <<>> THEN 0 ELSE Len(data_frame[1].v)

\* _process_format_string without its branch for a data frame of no rows.
ProcessWithoutEmptyCase(format_string_, data_frame, phs) ==
    ProcessIterations(format_string_, data_frame, phs, 0, NumIterations(data_frame), <<>>, {})

\* DataBuilder._process_format_string
ProcessFormatString(format_string_, data_frame, phs) ==
    IF NumIterations(data_frame) = 0
    THEN [error |-> "", result |-> <<format_string_>>, calls |-> {}]
    ELSE ProcessIterations(format_string_, data_frame, phs, 0, NumIterations(data_frame),
                           <<>>, {})

RECURSIVE FindAllPlaceholders(_, _)
\* re.findall(r"([\\]?<.*?>)", s) from offset p on (s holds no line break).
FindAllPlaceholders(s, p) ==
    LET \* The match takes in a backslash right before its opening bracket.
        Closed(lt, gt) ==
            IF gt < 0 THEN <<>>
            ELSE <<Slice(s, IF lt > p /\ Char(s, lt - 1) = "\\" THEN lt - 1 ELSE lt, gt + 1)>>
                 \o FindAllPlaceholders(s, gt + 1)
        \* No match starts before the next opening bracket, none at all
        \* when no closing bracket follows it.
        Opened(lt) == IF lt >= Len(s) THEN <<>> ELSE Closed(lt, IndexIn(s, ">", lt + 1))
    IN  Opened(FirstAt(s, p, {"<"}))

IsUnescapedItem(item) == ~(StartsWith(item, "\\<") /\ EndsWith(item, "\\>"))

\* The unescaped placeholders _check_for_unmatched_placeholders finds in one output.
UnescapedPlaceholders(out) ==
    SelectSeq(FindAllPlaceholders(JoinStr(SelectSeq(SplitLines(out), NotComment), ""), 0),
              IsUnescapedItem)

\* A build that never looks for unmatched placeholders in its outputs.
NoUnmatchedCheck(processed_output) == ""

RECURSIVE CheckForUnmatchedPlaceholders(_)
\* DataBuilder._check_for_unmatched_placeholders: the message, "" if it passes.
CheckForUnmatchedPlaceholders(processed_output) ==
    LET Found(found) ==
            IF found # <<>> THEN "Invalid placeholder format: " \o found[1]
            ELSE CheckForUnmatchedPlaceholders(Tail(processed_output))
    IN  IF processed_output = <<>> THEN ""
        ELSE Found(UnescapedPlaceholders(processed_output[1]))

\* A build that hands over its outputs before it checks them for unmatched
\* placeholders.
BuildYieldingOutputs(b, format_string_, d) ==
    LET raise(msg, dd, calls) == [error |-> msg, output |-> <<>>, data |-> dd,
                                  table |-> <<>>, calls |-> calls]
        Unmatched(defaults, data_frame, processed, unmatched) ==
            IF unmatched # ""
            THEN [error |-> unmatched,
                  output |-> [i \in 1..Len(processed.result) |->
                                  UnescapeBrackets(processed.result[i])],
                  data |-> defaults.data, table |-> <<>>, calls |-> processed.calls]
            ELSE [error |-> "",
                  output |-> [i \in 1..Len(processed.result) |->
                                  UnescapeBrackets(processed.result[i])],
                  data |-> defaults.data, table |-> data_frame.table,
                  calls |-> processed.calls]
        Processed(defaults, data_frame, processed) ==
            IF processed.error # "" THEN raise(processed.error, defaults.data, processed.calls)
            ELSE Unmatched(defaults, data_frame, processed,
                           CheckForUnmatchedPlaceholders(processed.result))
        Required(defaults, data_frame, missing) ==
            IF missing # "" THEN raise(missing, defaults.data, {})
            ELSE Processed(defaults, data_frame,
                           ProcessFormatString(b.minified, data_frame.table, b.placeholders))
        Transformed(defaults, data_frame) ==
            IF data_frame.error # "" THEN raise(data_frame.error, defaults.data, {})
            ELSE Required(defaults, data_frame,
                          ValidateRequiredPlaceholders(b.placeholders, data_frame.table))
        Validated(defaults, codecError) ==
            IF codecError # "" THEN raise(codecError, defaults.data, {})
            ELSE Transformed(defaults, TransformData(defaults.data, b.placeholders))
        Defaults(defaults) ==
            IF ~defaults.ok THEN raise("No closing quotation", d, {})
            ELSE Validated(defaults, ValidateCodecs(b.placeholders, format_string_))
    IN  IF b.minified = ""
        THEN [error |-> "", output |-> <<>>, data |-> d, table |-> <<>>, calls |-> {}]
        ELSE Defaults(AssignDefaults(b.placeholders, d))

\* DataBuilder.build on a constructed builder b with data d: the error raised
\* ("" if none), the outputs returned, data as build leaves it, the row
\* table, and the codec.run calls made.
DataBuilderBuild(b, format_string_, d) ==
    LET raise(msg, dd, calls) == [error |-> msg, output |-> <<>>, data |-> dd,
                                  table |-> <<>>, calls |-> calls]
        Unmatched(defaults, data_frame, processed, unmatched) ==
            IF unmatched # "" THEN raise(unmatched, defaults.data, processed.calls)
            ELSE [error |-> "",
                  output |-> [i \in 1..Len(processed.result) |->
                                  UnescapeBrackets(processed.result[i])],
                  data |-> defaults.data, table |-> data_frame.table,
                  calls |-> processed.calls]
        Processed(defaults, data_frame, processed) ==
            IF processed.error # "" THEN raise(processed.error, defaults.data, processed.calls)
            ELSE Unmatched(defaults, data_frame, processed,
                           CheckForUnmatchedPlaceholders(processed.result))
        Required(defaults, data_frame, missing) ==
            IF missing # "" THEN raise(missing, defaults.data, {})
            ELSE Processed(defaults, data_frame,
                           ProcessFormatString(b.minified, data_frame.table, b.placeholders))
        Transformed(defaults, data_frame) ==
            IF data_frame.error # "" THEN raise(data_frame.error, defaults.data, {})
            ELSE Required(defaults, data_frame,
                          ValidateRequiredPlaceholders(b.placeholders, data_frame.table))
        Validated(defaults, codecError) ==
            IF codecError # "" THEN raise(codecError, defaults.data, {})
            ELSE Transformed(defaults, TransformData(defaults.data, b.placeholders))
        Defaults(defaults) ==
            IF ~defaults.ok THEN raise("No closing quotation", d, {})
            ELSE Validated(defaults, ValidateCodecs(b.placeholders, format_string_))
    IN  IF b.minified = ""
        THEN [error |-> "", output |-> <<>>, data |-> d, table |-> <<>>, calls |-> {}]
        ELSE Defaults(AssignDefaults(b.placeholders, d))

\* Snippet.build(): a DataBuilder is constructed and built.
SnippetBuild(format_string_, d) ==
    LET Built(b, r) ==
            [error |-> r.error, output |-> r.output, data |-> r.data, table |-> r.table,
             calls |-> r.calls, minified |-> b.minified, placeholders |-> b.placeholders]
        Constructed(b) ==
            IF b.error # ""
            THEN [error |-> b.error, output |-> <<>>, data |-> b.data, table |-> <<>>,
                  calls |-> {}, minified |-> "", placeholders |-> <<>>]
            ELSE Built(b, DataBuilderBuild(b, format_string_, b.data))
    IN  Constructed(NewDataBuilder(format_string_, d))

-----------------------------------------------------------------------------
(* parsers.py: ArgumentFormatParser, and the files it may read.            *)

\* The files that exist: a path and the text of the file.
FileSystem == <<[path |-> "vals.txt", content |-> "x\ny"]>>

IsFile(path) == \E i \in 1..Len(FileSystem) : FileSystem[i].path = path
ReadFile(path) == FileSystem[CHOOSE i \in 1..Len(FileSystem) : FileSystem[i].path = path].content

RECURSIVE WordPrefix(_, _)
\* The end of the longest run of \w characters of s that starts at offset i.
WordPrefix(s, i) ==
    IF i < Len(s) /\ IsAlnumUnderscore(Char(s, i)) THEN WordPrefix(s, i + 1) ELSE i

\* The argument split at its first = or :, whatever stands before it.
SplitAtFirstSeparator(format_argument) ==
    LET At(e) ==
            IF e < Len(format_argument)
            THEN [placeholder |-> Slice(format_argument, 0, e),
                  separator |-> Char(format_argument, e),
                  value |-> Slice(format_argument, e + 1, Len(format_argument))]
            ELSE [placeholder |-> "", separator |-> "", value |-> format_argument]
    IN  At(FirstAt(format_argument, 0, {"=", ":"}))

\* The first match of (?:(\w+)([=:]))?(.*) : placeholder, separator, value.
ArgumentMatch(format_argument) ==
    LET Line(e, stop) ==
            IF e > 0 /\ e < Len(format_argument) /\ Char(format_argument, e) \in {"=", ":"}
            THEN [placeholder |-> Slice(format_argument, 0, e),
                  separator |-> Char(format_argument, e),
                  value |-> Slice(format_argument, e + 1, Max(stop, e + 1))]
            ELSE [placeholder |-> "", separator |-> "",
                  value |-> Slice(format_argument, 0, stop)]
        Word(e, nl) == Line(e, IF nl < 0 THEN Len(format_argument) ELSE nl)
    IN  Word(WordPrefix(format_argument, 0), IndexIn(format_argument, "\n", 0))

RECURSIVE AppendLines(_, _, _)
\* _parse_placeholder_file: data.append(placeholder, value) for each line.
AppendLines(d, placeholder, lines) ==
    LET Appended(r) ==
            IF ~r.ok THEN [ok |-> FALSE, data |-> d]
            ELSE AppendLines(r.data, placeholder, Tail(lines))
    IN  IF lines = <<>> THEN [ok |-> TRUE, data |-> d]
        ELSE Appended(DataAppend(d, placeholder, lines[1]))

\* ArgumentFormatParser.parse: the items of the dict it returns (isList tells
\* a value list read from a file from a string), or the error raised.
ArgumentFormatParse(format_argument) ==
    LET Read(m, read) ==
            IF ~read.ok
            THEN [error |-> "Parsing placeholder '" \o m.placeholder
                            \o "' failed! The file '" \o m.value
                            \o "' has an invalid format!", items |-> <<>>]
            ELSE [error |-> "",
                  items |-> [i \in 1..Len(read.data) |->
                                 [k |-> read.data[i].k, isList |-> TRUE, text |-> "",
                                  list |-> read.data[i].v]]]
        Matched(m) ==
            IF m.separator = "="
            THEN [error |-> "", items |-> <<[k |-> m.placeholder, isList |-> FALSE,
                                             text |-> m.value, list |-> <<>>]>>]
            ELSE IF m.separator = ""
            THEN [error |-> "", items |-> <<[k |-> "", isList |-> FALSE,
                                             text |-> m.value, list |-> <<>>]>>]
            ELSE IF ~IsFile(m.value)
            THEN [error |-> "Parsing placeholder '" \o m.placeholder
                            \o "' failed! The file '" \o m.value \o "' was not found!",
                  items |-> <<>>]
            ELSE Read(m, AppendLines(<<>>, m.placeholder, SplitLines(ReadFile(m.value))))
    IN  Matched(ArgumentMatch(format_argument))

-----------------------------------------------------------------------------
(* __init__.py: Snippet.                                                   *)

\* Snippet.list_placeholders: the names, or unbalanced when the parser raises.
ListPlaceholders(format_string_) ==
    LET Parsed(parsed) ==
            [unbalanced |-> parsed.unbalanced,
             names |-> [i \in 1..Len(parsed.placeholders) |-> parsed.placeholders[i].name]]
    IN  Parsed(ParsePlaceholders(format_string_))

\* Snippet.list_unset_placeholders, given what list_placeholders returns.
ListUnsetPlaceholders(names, d) ==
    SelectSeq(names, LAMBDA n : ~HasKey(d, n) /\ n \notin ReservedPlaceholderNames)

\* _set_arguments with the queue of unset placeholders consulted before the
\* last explicitly named placeholder.
QueueBeforeNamed(item, placeholder, unset_placeholders, last_assigned_placeholder) ==
    IF item.k # "" THEN item.k
    ELSE IF unset_placeholders # <<>> THEN unset_placeholders[1]
    ELSE IF last_assigned_placeholder # "" THEN last_assigned_placeholder
    ELSE placeholder

\* Snippet._set_arguments: the placeholder the values of an item are
\* appended to.
TargetPlaceholder(item, placeholder, unset_placeholders, last_assigned_placeholder) ==
    IF item.k # "" THEN item.k
    ELSE IF last_assigned_placeholder # "" THEN last_assigned_placeholder
    ELSE IF unset_placeholders # <<>> THEN unset_placeholders[1]
    ELSE placeholder

RECURSIVE SetArgumentsFrom(_, _, _, _, _)
\* Snippet._set_arguments: the loop over data_values.  placeholder and
\* last_assigned_placeholder are "" for None.
SetArgumentsFrom(data_values, placeholder, unset_placeholders, last_assigned_placeholder, d) ==
    LET Appended(item, target, pops, appended) ==
            IF ~appended.ok THEN [error |-> "No closing quotation", data |-> d]
            ELSE SetArgumentsFrom(Tail(data_values), target,
                                  IF pops THEN Tail(unset_placeholders)
                                  ELSE unset_placeholders,
                                  IF item.k # "" THEN item.k ELSE last_assigned_placeholder,
                                  appended.data)
        Target(item, target, pops) ==
            Appended(item, target, pops,
                     IF item.isList
                     THEN [ok |-> TRUE, data |-> DataAppendList(d, target, item.list)]
                     ELSE DataAppend(d, target, item.text))
        Item(item) ==
            IF item.k = "" /\ last_assigned_placeholder = "" /\ unset_placeholders = <<>>
               /\ placeholder = ""
            THEN SetArgumentsFrom(Tail(data_values), placeholder, unset_placeholders,
                                  last_assigned_placeholder, d)
            ELSE Target(item,
                        TargetPlaceholder(item, placeholder, unset_placeholders,
                                          last_assigned_placeholder),
                        item.k = "" /\ last_assigned_placeholder = ""
                        /\ unset_placeholders # <<>>)
        Parsed(parsed) ==
            IF parsed.error # "" THEN [error |-> parsed.error, data |-> d]
            ELSE IF parsed.items = <<>>
            THEN SetArgumentsFrom(Tail(data_values), placeholder, unset_placeholders,
                                  last_assigned_placeholder, d)
            ELSE Item(parsed.items[1])
    IN  IF data_values = <<>> THEN [error |-> "", data |-> d]
        ELSE IF data_values[1] = ""
        THEN SetArgumentsFrom(Tail(data_values), placeholder, unset_placeholders,
                              last_assigned_placeholder, d)
        ELSE Parsed(ArgumentFormatParse(data_values[1]))

\* Snippet._set_arguments(data_values)
SnippetSetArguments(format_string_, d, data_values) ==
    LET Listed(listed) ==
            IF listed.unbalanced THEN [error |-> "Unbalanced parentheses!", data |-> d]
            ELSE SetArgumentsFrom(data_values, "", ListUnsetPlaceholders(listed.names, d),
                                  "", d)
    IN  Listed(ListPlaceholders(format_string_))

-----------------------------------------------------------------------------
(* __init__.py, utils.py: the template files and create_or_edit_template.  *)
(* A path is an absolute POSIX path; the disk maps the path of a file to   *)
(* its content.                                                            *)

\* The template files Config finds: the name under templates/ and the text.
TemplateFiles == <<[name |-> "net/ping", content |-> "ping <host>\n"],
                   [name |-> "greet", content |-> "<a> <b>"]>>

\* safe_join_path(home_config_path, "templates") and
\* safe_join_path(app_config_path, "templates")
HomeTemplatePath == "/home/.snippet/templates"
AppTemplatePath == "/app/.snippet/templates"

RECURSIVE SplitPath(_)
\* path.split(os.sep)
SplitPath(path) ==
    LET At(k) == IF k < 0 THEN <<path>>
                 ELSE <<Slice(path, 0, k)>> \o SplitPath(Slice(path, k + 1, Len(path)))
    IN  At(Find(path, "/"))

RECURSIVE ResolveComponents(_, _)
\* The components os.path.normpath keeps of an absolute path: empty ones
\* and "." go, ".." takes the component before it away.
ResolveComponents(components, kept) ==
    IF components = <<>> THEN kept
    ELSE IF components[1] \in {"", "."} THEN ResolveComponents(Tail(components), kept)
    ELSE IF components[1] = ".."
    THEN ResolveComponents(Tail(components),
                           IF kept = <<>> THEN <<>> ELSE SubSeq(kept, 1, Len(kept) - 1))
    ELSE ResolveComponents(Tail(components), Append(kept, components[1]))

\* utils.safe_join_path(path, name) for an absolute path.
SafeJoinPath(path, name) ==
    "/" \o JoinStr(ResolveComponents(SplitPath(path \o "/" \o name), <<>>), "/")

\* os.path.isfile(path)
IsFileOn(fs, path) == path \in DOMAIN fs

\* open(path, 'w').write(content), shutil.copyfile(..., path)
WriteFile(fs, path, content) ==
    [q \in DOMAIN fs \cup {path} |-> IF q = path THEN content ELSE fs[q]]

\* The disk with the bundled templates under the application root.
BundledFiles ==
    [path \in {SafeJoinPath(AppTemplatePath, TemplateFiles[i].name) :
                   i \in 1..Len(TemplateFiles)} |->
        TemplateFiles[CHOOSE i \in 1..Len(TemplateFiles) :
                          SafeJoinPath(AppTemplatePath, TemplateFiles[i].name) = path].content]

\* The calls of create_or_edit_template that may raise: none, os.makedirs
\* or shutil.copyfile, open(..., 'w'), subprocess.call.
EditFailures == {"", "copyfile", "open", "editor"}

\* Snippet.create_or_edit_template(template_name, format_string) on the
\* disk fs, when the call named by failure raises: the exception that
\* leaves it ("" if none), the disk, the files the editor is called with.
\* The editor is taken to leave the file as it is.
CreateOrEditTemplate(fs, template_name, format_string_, failure) ==
    LET home_template_file == SafeJoinPath(HomeTemplatePath, template_name)
        app_template_file == SafeJoinPath(AppTemplatePath, template_name)
        failed(fs_) == [raised |-> "Creating template '" \o template_name \o "' failed!",
                        disk |-> fs_, edited |-> <<>>]
        Written(fs_) ==
            IF failure = "editor" THEN failed(fs_)
            ELSE [raised |-> "", disk |-> fs_, edited |-> <<home_template_file>>]
        Copied(fs_) ==
            IF format_string_ = "" THEN Written(fs_)
            ELSE IF failure = "open" THEN failed(fs_)
            ELSE Written(WriteFile(fs_, home_template_file, format_string_))
    IN  IF IsFileOn(fs, home_template_file)
        THEN IF failure = "editor"
             THEN [raised |-> "No such file or directory", disk |-> fs, edited |-> <<>>]
             ELSE [raised |-> "", disk |-> fs, edited |-> <<home_template_file>>]
        ELSE IF failure = "copyfile" THEN failed(fs)
        ELSE IF IsFileOn(fs, app_template_file)
        THEN Copied(WriteFile(fs, home_template_file, fs[app_template_file]))
        ELSE Copied(fs)

-----------------------------------------------------------------------------
(* The state machine: a caller sets format_string, sets arguments and      *)
(* builds, as main() and the tests do.  The initial state holds what the   *)
(* caller is going to pass.                                                *)

RECURSIVE SeqsUpTo(_, _)
\* The sequences over S of length 0..n.
SeqsUpTo(S, n) ==
    IF n = 0 THEN {<<>>}
    ELSE LET shorter == SeqsUpTo(S, n - 1) IN
         shorter \cup {Append(s, x) : s \in {t \in shorter : Len(t) = n - 1}, x \in S}

Templates(pieces) == SeqsUpTo(pieces, MaxPieces) \ {<<>>}
Arguments(tokens) == SeqsUpTo(tokens, MaxArgs)

\* main's options when none is given, and a terminal as standard input.
NoOptions == [edit |-> "", format_string |-> "", template_name |-> "",
              list_templates |-> FALSE, list_codecs |-> FALSE, environment |-> FALSE,
              verbose |-> TRUE, debug |-> FALSE]
Terminal == [isatty |-> TRUE, text |-> ""]

\* A Snippet that is given nothing yet, in a process of one of the tuples.
InitSnippet(templates, arguments, processes) ==
    /\ template \in templates
    /\ argv \in arguments
    /\ \E p \in processes :
           /\ parsed_args = p[1]
           /\ stdin = p[2]
           /\ environ = p[3]
    /\ stdout = <<>>
    /\ exit_code = -1
    /\ logged = <<>>
    /\ format_string = ""
    /\ data = <<>>
    /\ pc = "new"
    /\ minified = ""
    /\ placeholders = <<>>
    /\ row_table = <<>>
    /\ output = <<>>
    /\ error = ""
    /\ codec_calls = {}

\* The plugin files of the registry, each in the codecs directory itself.
PluginFiles ==
    LET names == Sorted(CodecNames)
    IN  [i \in 1..Len(names) |-> [dir |-> "", name |-> names[i], ext |-> ".py", valid |-> TRUE]]

\* The Config is constructed from the plugin files of the registry.
InitConfigured ==
    /\ codec_files = PluginFiles
    /\ config = NewConfig(PluginFiles)

\* The templates roots hold one of the sets of files; no editor has run.
InitDisk(disks) ==
    /\ disk \in disks
    /\ editor_calls = <<>>

\* A process with the options, standard input and environment of one of
\* the tuples, and one of the argument lists as data_values; the Config is
\* constructed from the plugin files of the registry, the templates are the
\* bundled ones.
InitProcess(templates, arguments, processes) ==
    /\ InitSnippet(templates, arguments, processes)
    /\ InitConfigured
    /\ InitDisk({BundledFiles})

\* The caller passes one of the templates and one of the argument lists to
\* a Snippet of its own, as the tests do.
InitOf(templates, arguments) ==
    InitProcess(templates, arguments, {<<NoOptions, Terminal, <<>>>>})

InitWith(pieces, tokens) == InitOf(Templates(pieces), Arguments(tokens))

\* snippet.format_string = ...
SetFormatString ==
    /\ pc = "new"
    /\ format_string' = JoinStr(template, "")
    /\ pc' = "format"
    /\ UNCHANGED <<template, argv, data, minified, placeholders, row_table, output, error,
                   codec_calls, process, storage, console>>

\* snippet.arguments = data_values
SetArguments ==
    LET Set(r) ==
            /\ data' = r.data
            /\ error' = r.error
            /\ pc' = IF r.error = "" THEN "arguments" ELSE "failed"
    IN  /\ pc = "format"
        /\ Set(SnippetSetArguments(format_string, data, argv))
        /\ UNCHANGED <<template, argv, format_string, minified, placeholders, row_table,
                       output, codec_calls, process, storage, console>>

\* snippet.build()
Build ==
    LET Built(r) ==
            /\ data' = r.data
            /\ minified' = r.minified
            /\ placeholders' = r.placeholders
            /\ row_table' = r.table
            /\ output' = r.output
            /\ error' = r.error
            /\ codec_calls' = r.calls
            /\ pc' = IF r.error = "" THEN "built" ELSE "failed"
    IN  /\ pc = "arguments"
        /\ Built(SnippetBuild(format_string, data))
        /\ UNCHANGED <<template, argv, format_string, process, storage, console>>

Next == SetFormatString \/ SetArguments \/ Build

-----------------------------------------------------------------------------
(* __init__.py: the environment, and main().  The process is what main     *)
(* finds: the parsed options, standard input, os.environ, the template     *)
(* files; argv holds the positional data_values.                           *)

\* str.islower(): a cased character, and no upper-case one.
IsLower(s) ==
    /\ \E i \in 0..(Len(s) - 1) : IndexIn(LowerLetters, Char(s, i), 0) >= 0
    /\ \A i \in 0..(Len(s) - 1) : IndexIn(UpperLetters, Char(s, i), 0) < 0

\* os.environ.get(name), "" for None.
EnvironGet(env, name) == IF HasKey(env, name) THEN Get(env, name) ELSE ""

RECURSIVE ImportAssigned(_, _)
\* import_environment without its test for a value assigned already.
ImportAssigned(d, items) ==
    LET placeholder == items[1].k
        Appended(r) == IF r.ok THEN ImportAssigned(r.data, Tail(items))
                       ELSE [error |-> "No closing quotation", data |-> d]
    IN  IF items = <<>> THEN [error |-> "", data |-> d]
        ELSE IF ~IsLower(placeholder) \/ StartsWith(placeholder, "_")
        THEN ImportAssigned(d, Tail(items))
        ELSE IF items[1].v # "" /\ ~HasKey(ReservedPlaceholderValues, placeholder)
        THEN Appended(DataAppend(d, placeholder, items[1].v))
        ELSE ImportAssigned(d, Tail(items))

RECURSIVE ImportEnvironment(_, _)
\* Snippet.import_environment over os.environ.items()
ImportEnvironment(d, items) ==
    LET placeholder == items[1].k
        Appended(r) == IF r.ok THEN ImportEnvironment(r.data, Tail(items))
                       ELSE [error |-> "No closing quotation", data |-> d]
    IN  IF items = <<>> THEN [error |-> "", data |-> d]
        ELSE IF ~IsLower(placeholder) \/ StartsWith(placeholder, "_")
        THEN ImportEnvironment(d, Tail(items))
        ELSE IF ~HasKey(d, placeholder)
                /\ items[1].v # "" /\ ~HasKey(ReservedPlaceholderValues, placeholder)
        THEN Appended(DataAppend(d, placeholder, items[1].v))
        ELSE ImportEnvironment(d, Tail(items))

RECURSIVE SetKeys(_, _)
\* temporary_data[placeholder] = values[placeholder] for every key of values.
SetKeys(temporary_data, values) ==
    IF values = <<>> THEN temporary_data
    ELSE SetKeys(SetKey(temporary_data, values[1].k, values[1].v), Tail(values))

\* Snippet.list_environment
ListEnvironment(d) ==
    LET Line(e) ==
            IF Len(e.v) = 1 THEN "export " \o e.k \o "=\"" \o e.v[1] \o "\""
            ELSE "export " \o e.k \o "=\"\\('" \o JoinStr(e.v, "' '") \o "'\\)\""
        Lines(temporary_data) ==
            [i \in 1..Len(temporary_data) |-> Line(temporary_data[i])]
    IN  Lines(SetKeys(d, ReservedPlaceholderValues))

\* Config.get_format_template_names
FormatTemplateNames == Sorted({TemplateFiles[i].name : i \in 1..Len(TemplateFiles)})

\* Config.get_format_template(format_template_name); chosen is the name
\* iterfzf returns when the name given is no file, "" for None.
GetFormatTemplate(format_template_name, chosen) ==
    LET IsTemplateFile(name) == \E i \in 1..Len(TemplateFiles) : TemplateFiles[i].name = name
        Content(name) ==
            TemplateFiles[CHOOSE i \in 1..Len(TemplateFiles) : TemplateFiles[i].name = name].content
        Load(name) ==
            IF ~IsTemplateFile(name)
            THEN [error |-> "Loading " \o (IF name = "" THEN "template" ELSE name)
                            \o " failed! Template not found!", text |-> ""]
            ELSE [error |-> "", text |-> JoinStr(SplitLines(Content(name)), linesep)]
    IN  Load(IF IsTemplateFile(format_template_name) THEN format_template_name ELSE chosen)

\* What an escape sequence of unicode_escape stands for: \n, \t, \r, the
\* backslash and the quotes; a sequence the codec does not know is kept.
\* (The bell, octal, \x, \u and \N sequences are in none of the inputs.)
EscapeSequence(c) ==
    IF c = "n" THEN "\n"
    ELSE IF c = "t" THEN "\t"
    ELSE IF c = "r" THEN "\r"
    ELSE IF c \in {"\\", "'", "\""} THEN c
    ELSE "\\" \o c

RECURSIVE UnicodeEscapeDecode(_)
\* codecs.decode(s, 'unicode_escape'); ok is FALSE when the string ends in
\* a lone backslash (UnicodeDecodeError).
UnicodeEscapeDecode(s) ==
    LET Rest(text, r) == [ok |-> r.ok, text |-> IF r.ok THEN text \o r.text ELSE ""]
        At(k) ==
            IF k < 0 THEN [ok |-> TRUE, text |-> s]
            ELSE IF k = Len(s) - 1 THEN [ok |-> FALSE, text |-> ""]
            ELSE Rest(Slice(s, 0, k) \o EscapeSequence(Char(s, k + 1)),
                      UnicodeEscapeDecode(Slice(s, k + 2, Len(s))))
    IN  At(Find(s, "\\"))

\* print(line) for every line, and sys.exit(code)
Exit(code, lines) ==
    /\ stdout' = stdout \o lines
    /\ exit_code' = code
    /\ pc' = "exited"
    /\ UNCHANGED logged

\* The level main gives the logger: DEBUG (10) with -d, else INFO (20),
\* and WARN (30) with -q.
LoggerLevel(arguments) ==
    IF arguments.debug THEN 10 ELSE IF arguments.verbose THEN 20 ELSE 30

\* Logger.error that logs its record at the level ERROR (40).
LoggedAtErrorLevel(records, level, message) ==
    IF level <= 40 THEN Append(records, "\\033[31mERROR: \\033[0m" \o message) ELSE records

\* Logger.error: the record is logged at the level INFO (20), the tag in
\* red; the logger and its handler pass a record of their level or above.
LoggerError(records, level, message) ==
    IF level <= 20 THEN Append(records, "\\033[31mERROR: \\033[0m" \o message) ELSE records

\* except Exception as e: logger.error(str(e)); sys.exit(1)
Fail(message) ==
    /\ error' = message
    /\ logged' = LoggerError(logged, LoggerLevel(parsed_args), message)
    /\ stdout' = stdout
    /\ exit_code' = 1
    /\ pc' = "exited"

\* main without its checks of -f against -t and against piped input.
NoFormatStringConflict(arguments, isatty) == ""

\* The conflict main raises for the options, "" when it raises none.
FormatStringConflict(arguments, isatty) ==
    IF arguments.format_string # "" /\ arguments.template_name # ""
    THEN "--format-string can not be used in conjunction with --template!"
    ELSE IF arguments.format_string # "" /\ ~isatty
    THEN "--format-string can not be used in conjunction with piped input!"
    ELSE IF arguments.template_name # "" /\ ~isatty
    THEN "--template can not be used in conjunction with piped input!"
    ELSE ""

\* main, from --edit to the last of the conflicts.  failure is the call of
\* create_or_edit_template that raises, if one does.
MainOptions ==
    LET Edited(r) ==
            /\ disk' = r.disk
            /\ editor_calls' = editor_calls \o r.edited
            /\ IF r.raised = "" THEN Exit(0, <<>>) /\ UNCHANGED error ELSE Fail(r.raised)
        Listed ==
            IF parsed_args.list_codecs /\ parsed_args.list_templates
            THEN Fail("--codec-list can not be used in combination with --template-list!")
            ELSE IF parsed_args.list_templates
            THEN Exit(0, FormatTemplateNames) /\ UNCHANGED error
            ELSE IF parsed_args.list_codecs
            THEN Exit(0, Sorted(CodecNames)) /\ UNCHANGED error
            ELSE IF FormatStringConflict(parsed_args, stdin.isatty) # ""
            THEN Fail(FormatStringConflict(parsed_args, stdin.isatty))
            ELSE pc' = "options" /\ UNCHANGED <<error, console>>
    IN  /\ pc = "new"
        /\ IF parsed_args.edit # ""
           THEN \E failure \in EditFailures :
                    Edited(CreateOrEditTemplate(disk, parsed_args.edit,
                                                parsed_args.format_string, failure))
           ELSE Listed /\ UNCHANGED storage
        /\ UNCHANGED <<template, argv, format_string, data, minified, placeholders, row_table,
                       output, codec_calls, process>>

\* main: the format string of -f, of the template, of standard input or of
\* FORMAT_STRING, decoded and given to the Snippet.
MainFormatString ==
    LET Decoded(r) ==
            IF r.ok THEN /\ format_string' = r.text
                         /\ pc' = "format"
                         /\ UNCHANGED <<error, console>>
            ELSE Fail("\\ at end of string") /\ UNCHANGED format_string
        Resolved(text) ==
            Decoded(UnicodeEscapeDecode(IF text = "" THEN EnvironGet(environ, "FORMAT_STRING")
                                        ELSE text))
        Loaded(r) ==
            IF r.error # "" THEN Fail(r.error) /\ UNCHANGED format_string
            ELSE Resolved(IF stdin.isatty THEN r.text ELSE stdin.text)
    IN  /\ pc = "options"
        /\ IF parsed_args.template_name = ""
           THEN Loaded([error |-> "", text |-> parsed_args.format_string])
           ELSE \E chosen \in {TemplateFiles[i].name : i \in 1..Len(TemplateFiles)} \cup {""} :
                    Loaded(GetFormatTemplate(parsed_args.template_name, chosen))
        /\ UNCHANGED <<template, argv, data, minified, placeholders, row_table, output,
                       codec_calls, process, storage>>

\* main: snippet.arguments = arguments.data_values
MainArguments ==
    LET Set(r) ==
            IF r.error = "" THEN /\ data' = r.data
                                 /\ pc' = "arguments"
                                 /\ UNCHANGED <<error, console>>
            ELSE data' = r.data /\ Fail(r.error)
    IN  /\ pc = "format"
        /\ IF format_string # "" /\ argv # <<>>
           THEN Set(SnippetSetArguments(format_string, data, argv))
           ELSE pc' = "arguments" /\ UNCHANGED <<data, error, console>>
        /\ UNCHANGED <<template, argv, format_string, minified, placeholders, row_table,
                       output, codec_calls, process, storage>>

\* main: snippet.import_environment()
MainImportEnvironment ==
    LET Imported(r) ==
            IF r.error = "" THEN /\ data' = r.data
                                 /\ pc' = "imported"
                                 /\ UNCHANGED <<error, console>>
            ELSE data' = r.data /\ Fail(r.error)
    IN  /\ pc = "arguments"
        /\ IF format_string # ""
           THEN Imported(ImportEnvironment(data, environ))
           ELSE pc' = "imported" /\ UNCHANGED <<data, error, console>>
        /\ UNCHANGED <<template, argv, format_string, minified, placeholders, row_table,
                       output, codec_calls, process, storage>>

\* main: --env, and the usage when there is no format string.
MainEnvironment ==
    /\ pc = "imported"
    /\ IF format_string # "" /\ parsed_args.environment
       THEN Exit(0, ListEnvironment(data))
       ELSE IF format_string = ""
       THEN Exit(1, <<>>)
       ELSE pc' = "environment" /\ UNCHANGED console
    /\ UNCHANGED <<template, argv, format_string, data, minified, placeholders, row_table,
                   output, error, codec_calls, process, storage>>

\* The lines main prints to standard output: splitlines of every output,
\* the lines starting with # go to standard error.
PrintedLines(outputs) ==
    LET Lines(k) == SelectSeq(SplitLines(outputs[k]), NotComment)
        Printed[k \in 0..Len(outputs)] == IF k = 0 THEN <<>> ELSE Printed[k - 1] \o Lines(k)
    IN  Printed[Len(outputs)]

\* main: snippet.build(), and the lines printed.
MainBuild ==
    LET Built(r) ==
            /\ data' = r.data
            /\ minified' = r.minified
            /\ placeholders' = r.placeholders
            /\ row_table' = r.table
            /\ output' = r.output
            /\ error' = r.error
            /\ codec_calls' = r.calls
            /\ stdout' = stdout \o PrintedLines(r.output)
            /\ exit_code' = IF r.error = "" THEN 0 ELSE 1
            /\ logged' = IF r.error = "" THEN logged
                         ELSE LoggerError(logged, LoggerLevel(parsed_args), r.error)
            /\ pc' = IF r.error = "" THEN "built" ELSE "failed"
    IN  /\ pc = "environment"
        /\ Built(SnippetBuild(format_string, data))
        /\ UNCHANGED <<template, argv, format_string, process, storage>>

NextMain ==
    \/ MainOptions
    \/ MainFormatString
    \/ MainArguments
    \/ MainImportEnvironment
    \/ MainEnvironment
    \/ MainBuild

\* config = Config(app_name, paths, log_level), as main and the tests
\* construct it.
ConstructConfig ==
    /\ config.state = "new"
    /\ config' = NewConfig(codec_files)
    /\ UNCHANGED <<template, argv, format_string, data, pc, minified, placeholders, row_table,
                   output, error, codec_calls, parsed_args, stdin, environ, codec_files,
                   console, storage>>

NextConfig == ConstructConfig

\* main has called sys.exit.
Exited == exit_code # -1

\* The environments of at most n variables out of entries.
Environments(entries, n) ==
    {env \in SeqsUpTo(entries, n) :
         \A i, j \in 1..Len(env) : i # j => env[i].k # env[j].k}

\* The processes of the options, standard inputs and variables given.
Processes(options, stdins, entries) ==
    {<<o, s, env>> : o \in options, s \in stdins, env \in Environments(entries, MaxEnv)}

InitMain(arguments, processes) == InitProcess({<<>>}, arguments, processes)

-----------------------------------------------------------------------------
(* Rows: templates of plain and repeatable placeholders; values that are   *)
(* plain words, list literals, and a list literal holding a list literal.  *)

PiecesRows == {"<a>", " <b>", " <r...>"}
TokensRows == {"7", "b=\\(2 3\\)", "a=\\('\\(v w\\)'\\)", "r=\\(5 6\\)"}

InitRows == InitWith(PiecesRows, TokensRows)
SpecRows == InitRows /\ [][Next]_vars

\* The names with a placeholder that is not repeatable: they take part in
\* the product.
ProductNames == {placeholders[i].name : i \in {j \in 1..Len(placeholders) :
                                                  ~placeholders[j].repeatable}}

RECURSIVE ProductOfLengths(_, _)
\* The product of the lengths of the value lists of d stored under names.
ProductOfLengths(d, names) ==
    IF d = <<>> THEN 1
    ELSE (IF d[1].k \in names THEN Len(d[1].v) ELSE 1) * ProductOfLengths(Tail(d), names)

\* C1: after a build of a template all of whose placeholders have a value,
\* the number of outputs is the product of the lengths of the value lists of
\* the referenced non-repeatable names, and every column of the row table
\* has that many entries, whatever the text of the values.
C1_RowsAreTheProduct ==
    (pc = "built" /\ placeholders # <<>>) =>
        /\ Len(output) = ProductOfLengths(data, ProductNames)
        /\ \A i \in 1..Len(row_table) :
               Len(row_table[i].v) = ProductOfLengths(data, ProductNames)

\* C1: a build whose stored value has the list-literal shape.
C1_ListLiteralValueBuilt ==
    /\ pc = "built"
    /\ \E i \in 1..Len(data) : \E j \in 1..Len(data[i].v) : data[i].k \in ProductNames /\ IsListLiteral(data[i].v[j])

-----------------------------------------------------------------------------
(* Values: values that hold a placeholder token, in templates of plain     *)
(* placeholders and an escaped bracket.                                    *)

PiecesValues == {"<a>", " <b>", "\\<"}
TokensValues == {"a=<b>", "b=1", "a=\\('\\(<b>\\)'\\)"}

InitValues == InitWith(PiecesValues, TokensValues)
SpecValues == InitValues /\ [][Next]_vars

\* Every stored value list holds one value: the build has one row.
SingleValued == \A i \in 1..Len(data) : Len(data[i].v) = 1

\* What a piece of PiecesValues stands for in the output, given the stored values.
RenderValues(piece) ==
    CASE piece = "<a>" -> Get(data, "a")[1]
      [] piece = " <b>" -> " " \o Get(data, "b")[1]
      [] piece = "\\<" -> "<"

\* C2: a build with one stored value per name returns the template with
\* each placeholder token replaced by the stored value of its name, the
\* value verbatim even when it holds a placeholder token, and nothing else
\* changed.
C2_ValuesAppearVerbatim ==
    (pc = "built" /\ SingleValued) =>
        output = <<JoinStr([k \in 1..Len(template) |-> RenderValues(template[k])], "")>>

-----------------------------------------------------------------------------
(* Optional: top-level optional sections around a required placeholder.    *)

PiecesOptional == {"<a>", "[ <b>]", "[ <c='d'><date>]"}
TokensOptional == {"a=1", "b=2", "b="}

InitOptional == InitWith(PiecesOptional, TokensOptional)
SpecOptional == InitOptional /\ [][Next]_vars

\* The name and the value of a data_values token of the shape name=value.
TokenName(token) == Slice(token, 0, Find(token, "="))
TokenValue(token) == Slice(token, Find(token, "=") + 1, Len(token))

RECURSIVE ValuesIn(_, _)
ValuesIn(args, name) ==
    IF args = <<>> THEN <<>>
    ELSE (IF TokenName(args[1]) = name THEN <<TokenValue(args[1])>> ELSE <<>>)
         \o ValuesIn(Tail(args), name)

\* The values the command line assigns under the name, in order.
AssignedValues(name) == ValuesIn(argv, name)

\* The pieces of the template that are optional sections.
IsSection(piece) == Char(piece, 0) = "["

\* Every placeholder of the section resolves and none is set-but-empty:
\* <b> needs an assigned value other than the one empty string; <c='d'>
\* has its default unless c is assigned, and <date> has its reserved value.
SectionResolves(piece) ==
    CASE piece = "[ <b>]" -> AssignedValues("b") \notin {<<>>, <<"">>}
      [] piece = "[ <c='d'><date>]" -> AssignedValues("c") # <<"">>

\* What minification leaves of a piece.
KeptText(piece) ==
    IF ~IsSection(piece) THEN piece
    ELSE IF SectionResolves(piece) THEN Slice(piece, 1, Len(piece) - 1)
    ELSE ""

ExpectedMinified == JoinStr([k \in 1..Len(template) |-> KeptText(template[k])], "")

\* The build has run: the template has been minified.
BuildRan == pc \in {"built", "failed"}

\* Every root-level placeholder of the template has a value.
RootResolves == (\E k \in 1..Len(template) : template[k] = "<a>") => AssignedValues("a") # <<>>

\* C3, as stated: minification keeps a top-level optional section, without
\* its brackets, exactly if every placeholder of its own text resolves and
\* none is set-but-empty, removes it otherwise, and leaves the text outside
\* the sections unchanged.
C3_SectionKeptIffResolves ==
    BuildRan => minified = ExpectedMinified

\* C3, amended: the same, provided every root-level placeholder of the line
\* has a value; when one has none, the format string is left as it is, the
\* sections with their brackets included.
C3_SectionKeptIffResolvesWhenRootResolves ==
    BuildRan => minified = (IF RootResolves THEN ExpectedMinified ELSE format_string)

\* C3: a build where one section is kept and another, whose placeholder is
\* set to the empty string, is removed.
C3_SectionKeptAndSectionRemoved ==
    /\ BuildRan
    /\ RootResolves
    /\ AssignedValues("b") = <<"">>
    /\ \E k \in 1..Len(template) : IsSection(template[k]) /\ SectionResolves(template[k])
    /\ \E k \in 1..Len(template) : IsSection(template[k]) /\ ~SectionResolves(template[k])
    /\ template[1] = "<a>"

-----------------------------------------------------------------------------
(* Defaults: one name with and without a default, assigned and unassigned. *)

PiecesDefaults == {"<c='d'>", " <c|squote='d'>", " <c>"}
TokensDefaults == {"c=1", "c=", "c=2"}

InitDefaults == InitWith(PiecesDefaults, TokensDefaults)
SpecDefaults == InitDefaults /\ [][Next]_vars

\* Some occurrence of c in the template carries the default 'd'.
CarriesDefault == \E k \in 1..Len(template) : template[k] \in {"<c='d'>", " <c|squote='d'>"}

\* The values of c the build has to use: the assigned ones, else the default.
ValuesOfC ==
    IF AssignedValues("c") # <<>> THEN AssignedValues("c")
    ELSE IF CarriesDefault THEN <<"d">>
    ELSE <<>>

\* What a piece of PiecesDefaults stands for in a row where c is value.
RenderDefaults(piece, value) ==
    CASE piece = "<c='d'>" -> value
      [] piece = " <c|squote='d'>" -> " '" \o value \o "'"
      [] piece = " <c>" -> " " \o value

RowDefaults(value) ==
    JoinStr([k \in 1..Len(template) |-> RenderDefaults(template[k], value)], "")

C4_EmptyAssignedDefaultUnused ==
    /\ pc = "built"
    /\ AssignedValues("c") = <<"">>
    /\ CarriesDefault

-----------------------------------------------------------------------------
(* Repeat: a name whose occurrences are all repeatable, next to a plain    *)
(* placeholder.                                                            *)

PiecesRepeat == {"<a>", " <r...>", " <r...|squote>"}
TokensRepeat == {"a=\\(1 2\\)", "r=5", "r=\\(6 7\\)"}

InitRepeat == InitWith(PiecesRepeat, TokensRepeat)
SpecRepeat == InitRepeat /\ [][Next]_vars

\* The values a token of TokensRepeat assigns.
TokenList(token) ==
    CASE token = "a=\\(1 2\\)" -> <<"1", "2">>
      [] token = "r=5" -> <<"5">>
      [] token = "r=\\(6 7\\)" -> <<"6", "7">>

RECURSIVE ListsIn(_, _)
ListsIn(args, name) ==
    IF args = <<>> THEN <<>>
    ELSE (IF TokenName(args[1]) = name THEN TokenList(args[1]) ELSE <<>>)
         \o ListsIn(Tail(args), name)

\* The value list the command line assigns under the name.
AssignedList(name) == ListsIn(argv, name)

HasPiece(piece) == \E k \in 1..Len(template) : template[k] = piece
HasRepeatablePiece == HasPiece(" <r...>") \/ HasPiece(" <r...|squote>")

\* What a piece of PiecesRepeat stands for in the row of the value of a.
RenderRepeat(piece, value) ==
    CASE piece = "<a>" -> value
      [] piece = " <r...>" -> " " \o JoinStr(AssignedList("r"), " ")
      [] piece = " <r...|squote>" ->
             " " \o JoinStr([i \in 1..Len(AssignedList("r")) |->
                                 "'" \o AssignedList("r")[i] \o "'"], " ")

RowRepeat(value) ==
    JoinStr([k \in 1..Len(template) |-> RenderRepeat(template[k], value)], "")

\* The rows of the build: one per value of a if <a> occurs, else one.
RowValuesRepeat == IF HasPiece("<a>") THEN AssignedList("a") ELSE <<"">>

\* C5: the value list of a name whose occurrences are all repeatable is
\* substituted whole in every row, joined by single spaces after the
\* codecs have run, and the number of rows does not depend on how many
\* values the name has.
C5_RepeatableJoinedNotMultiplied ==
    BuildRan =>
        IF (HasPiece("<a>") /\ AssignedList("a") = <<>>)
           \/ (HasRepeatablePiece /\ AssignedList("r") = <<>>)
        THEN pc = "failed" /\ output = <<>>
        ELSE /\ pc = "built"
             /\ output = [i \in 1..Len(RowValuesRepeat) |-> RowRepeat(RowValuesRepeat[i])]

\* C5: a build of two rows with two repeatable values, joined with and
\* without a codec.
C5_RepeatableBuiltInTwoRows ==
    /\ pc = "built"
    /\ Len(AssignedList("r")) = 2
    /\ Len(AssignedList("a")) = 2
    /\ HasPiece("<a>") /\ HasPiece(" <r...>") /\ HasPiece(" <r...|squote>")

-----------------------------------------------------------------------------
(* Chain: chains of string codecs whose order shows in the result.         *)

PiecesChain == {"<a|squote|capfirst>", " <a|capfirst|squote>"}
TokensChain == {"a=x", "a=yz", "a="}

InitChain == InitWith(PiecesChain, TokensChain)
SpecChain == InitChain /\ [][Next]_vars

\* The two string codecs, written out for the values of TokensChain.
Quoted(value) == "'" \o value \o "'"
Capitalized(value) ==
    IF value = "" THEN ""
    ELSE (CASE Slice(value, 0, 1) = "x" -> "X"
            [] Slice(value, 0, 1) = "y" -> "Y"
            [] OTHER -> Slice(value, 0, 1)) \o Slice(value, 1, Len(value))

\* What a piece of PiecesChain stands for in the row of the value: the
\* codecs applied from left to right, each to the result of the one before.
RenderChain(piece, value) ==
    CASE piece = "<a|squote|capfirst>" -> Capitalized(Quoted(value))
      [] piece = " <a|capfirst|squote>" -> " " \o Quoted(Capitalized(value))

RowChain(value) ==
    JoinStr([k \in 1..Len(template) |-> RenderChain(template[k], value)], "")

\* C6: the codecs of a placeholder are applied in the order they are
\* written, each to the result of the one before: the substituted text of
\* <a|c1|...|cn> is cn(...c1(value)...).
C6_CodecsFoldLeftToRight ==
    (BuildRan /\ AssignedValues("a") # <<>>) =>
        /\ pc = "built"
        /\ output = [i \in 1..Len(AssignedValues("a")) |-> RowChain(AssignedValues("a")[i])]

\* C6: a build where the same two codecs ran in both orders on one value.
C6_BothOrdersBuilt ==
    /\ pc = "built"
    /\ HasPiece("<a|squote|capfirst>") /\ HasPiece(" <a|capfirst|squote>")
    /\ \E i \in 1..Len(output) : output[i] = "'x' 'X'"

-----------------------------------------------------------------------------
(* Arity: codec references with the wrong number of arguments: join takes  *)
(* one and is given none, squote takes none and is given one.              *)

PiecesArity == {"<a|join>", " <a|squote:'q'>", "[ <b|join>]"}
TokensArity == {"a=1", "b=2"}

InitArity == InitWith(PiecesArity, TokensArity)
SpecArity == InitArity /\ [][Next]_vars

\* The number of arguments each codec's run takes after the value.
DeclaredParameters(codec) == IF codec = "join" THEN 1 ELSE 0

\* C7: a build of a template with a codec reference of the wrong number of
\* arguments, every root-level placeholder having a value, fails with an
\* error that begins with the name of the codec and returns no output; and
\* no codec is run with a number of arguments other than the declared one.
C7_ArityMismatchFailsNamingTheCodec ==
    (BuildRan /\ ((HasPiece("<a|join>") \/ HasPiece(" <a|squote:'q'>"))
                      => AssignedValues("a") # <<>>)) =>
        /\ pc = "failed"
        /\ output = <<>>
        /\ StartsWith(error, "join: ") \/ StartsWith(error, "squote: ")
        /\ \A call \in codec_calls : call[2] = DeclaredParameters(call[1])

\* C7: a build that stopped at the check of the number of arguments.
C7_ArityCheckFailed ==
    /\ pc = "failed"
    /\ AssignedValues("a") # <<>>
    /\ HasPiece("<a|join>")
    /\ Find(error, "Expected 1 parameters, got 0") >= 0

-----------------------------------------------------------------------------
(* Unknown: references to a codec that is not in the registry, at root     *)
(* level and inside an optional section.                                   *)

PiecesUnknown == {"<a|nope>", "[ <b|nope>]", " <a>"}
TokensUnknown == {"a=1", "b=2"}

InitUnknown == InitWith(PiecesUnknown, TokensUnknown)
SpecUnknown == InitUnknown /\ [][Next]_vars

\* The error _validate_codecs raises for the codec nope.
CodecDoesNotExist ==
    error = "Parsing '" \o format_string \o "' failed! Codec 'nope' does not exist!"

\* The build stopped before any substitution: no row, no codec run, no output.
NothingSubstituted == row_table = <<>> /\ codec_calls = {} /\ output = <<>>

\* The section of b is part of the minified format string: b has a value,
\* or a root-level placeholder has none and the format string is left as it is.
SectionSurvives ==
    \/ AssignedValues("b") # <<>>
    \/ (HasPiece("<a|nope>") \/ HasPiece(" <a>")) /\ AssignedValues("a") = <<>>

\* C8, as stated: a build of a template that references an unknown codec
\* anywhere, at root level or inside an optional section, fails with the
\* "codec does not exist" error before any substitution.
C8_UnknownCodecAnywhereFails ==
    (BuildRan /\ (HasPiece("<a|nope>") \/ HasPiece("[ <b|nope>]"))) =>
        pc = "failed" /\ CodecDoesNotExist /\ NothingSubstituted

\* C8, amended: the build fails with that error, before any substitution,
\* exactly if an unknown codec is referenced by a placeholder of the
\* minified format string: at root level, or inside a section that
\* minification keeps.
C8_UnknownCodecInMinifiedFails ==
    BuildRan =>
        IF HasPiece("<a|nope>") \/ (HasPiece("[ <b|nope>]") /\ SectionSurvives)
        THEN pc = "failed" /\ CodecDoesNotExist /\ NothingSubstituted
        ELSE ~CodecDoesNotExist

\* C8: a build that failed on the unknown codec of a kept section.
C8_UnknownCodecInKeptSection ==
    /\ pc = "failed"
    /\ CodecDoesNotExist
    /\ ~HasPiece("<a|nope>")
    /\ AssignedValues("b") # <<>>
    /\ AssignedValues("a") # <<>>

-----------------------------------------------------------------------------
(* Missing: required placeholders without a value, next to an unknown      *)
(* codec and a reserved placeholder.  No token assigns b.                  *)

PiecesMissing == {"<a>", " <b>", " <a|nope>", " <date>"}
TokensMissing == {"a=1", "date=3"}

InitMissing == InitWith(PiecesMissing, TokensMissing)
SpecMissing == InitMissing /\ [][Next]_vars

\* The name of the placeholder of a piece of PiecesMissing.
PieceName(piece) ==
    CASE piece \in {"<a>", " <a|nope>"} -> "a"
      [] piece = " <b>" -> "b"
      [] piece = " <date>" -> "date"

RECURSIVE MissingIn(_, _)
\* The names of the pieces that have no value, each once, in the order of
\* the pieces; date has its reserved value.
MissingIn(pieces, seen) ==
    IF pieces = <<>> THEN <<>>
    ELSE IF PieceName(pieces[1]) \notin seen \cup {"date"}
            /\ AssignedValues(PieceName(pieces[1])) = <<>>
    THEN <<PieceName(pieces[1])>> \o MissingIn(Tail(pieces), seen \cup {PieceName(pieces[1])})
    ELSE MissingIn(Tail(pieces), seen)

MissingNames == MissingIn(template, {})

MissingData ==
    "Missing data for "
    \o JoinStr([i \in 1..Len(MissingNames) |-> "<" \o MissingNames[i] \o ">"], ", ") \o "!"

\* A value is assigned to the reserved placeholder of the template.
ReservedAssigned == HasPiece(" <date>") /\ AssignedValues("date") # <<>>

\* C9, as stated: a build where required placeholders have no value fails
\* with the one "Missing data" error that names each of them once, in
\* template order, and returns no output.
C9_MissingDataNamesAll ==
    (BuildRan /\ MissingNames # <<>>) =>
        pc = "failed" /\ error = MissingData /\ output = <<>>

\* C9, amended: the same, unless the build has failed before on an unknown
\* codec or on a value assigned to a reserved placeholder; with nothing
\* missing and neither of these the build succeeds.
C9_MissingDataNamesAllUnlessFailedBefore ==
    BuildRan =>
        IF HasPiece(" <a|nope>") THEN pc = "failed" /\ CodecDoesNotExist
        ELSE IF ReservedAssigned
        THEN pc = "failed" /\ error = "<date> is/are already defined in your profile!"
        ELSE IF MissingNames # <<>>
        THEN pc = "failed" /\ error = MissingData /\ output = <<>>
        ELSE pc = "built"

\* C9: a build that failed naming two missing placeholders, b before a.
C9_TwoMissingNamed ==
    /\ pc = "failed"
    /\ error = "Missing data for <b>, <a>!"
    /\ Len(template) = 3

-----------------------------------------------------------------------------
(* Malformed: a placeholder with only its closing bracket escaped, one     *)
(* with white space inside, and an escaped opening bracket.                *)

PiecesMalformed == {"<a\\>", "< b>", "\\<"}
TokensMalformed == {"a=1", "b=2"}

InitMalformed == InitWith(PiecesMalformed, TokensMalformed)
SpecMalformed == InitMalformed /\ [][Next]_vars

\* The template holds a malformed placeholder.
HasMalformedPiece == HasPiece("<a\\>") \/ HasPiece("< b>")

\* C10: a build of a template that holds a malformed placeholder (white
\* space inside the brackets, only one of the two brackets escaped) raises
\* an error and emits no output.
C10_MalformedPlaceholderRaises ==
    (BuildRan /\ HasMalformedPiece) => pc = "failed" /\ error # "" /\ output = <<>>

\* C10: a build that raised on a placeholder with only its closing bracket
\* escaped.
C10_HalfEscapedRaised ==
    /\ pc = "failed"
    /\ template = <<"<a\\>">>
    /\ error = "Invalid placeholder format: <a\\>"

-----------------------------------------------------------------------------
(* Escaped: user-escaped angle and square brackets before and after a      *)
(* placeholder.                                                            *)

PiecesEscaped == {"\\<x\\>", "\\[y\\]", "<a>"}
TokensEscaped == {"a=1", "a=2"}

InitEscaped == InitWith(PiecesEscaped, TokensEscaped)
SpecEscaped == InitEscaped /\ [][Next]_vars

\* A piece with its escaped characters as the literal characters and its
\* placeholder as the value.
RenderEscaped(piece, value) ==
    CASE piece = "\\<x\\>" -> "<x>"
      [] piece = "\\[y\\]" -> "[y]"
      [] piece = "<a>" -> value

RowEscaped(value) ==
    JoinStr([k \in 1..Len(template) |-> RenderEscaped(template[k], value)], "")

\* One row per value of a; one row when the template has no placeholder.
RowsEscaped ==
    IF HasPiece("<a>")
    THEN [i \in 1..Len(AssignedValues("a")) |-> RowEscaped(AssignedValues("a")[i])]
    ELSE <<RowEscaped("")>>

\* C11: every escaped \[, \], \< and \> of the template is emitted as the
\* literal character in every output and is not taken as a delimiter, with
\* placeholders before or after the escaped characters: a build with data
\* for its placeholder succeeds and its outputs are the template with the
\* escaped characters literal and the placeholder replaced.
C11_EscapedCharactersAreLiteral ==
    (BuildRan /\ (HasPiece("<a>") => AssignedValues("a") # <<>>))
        => pc = "built" /\ output = RowsEscaped

\* C11: a build of a template with escaped characters after its
\* placeholder.
C11_EscapedAfterPlaceholderBuilt ==
    /\ pc = "built"
    /\ template = <<"<a>", "\\<x\\>", "\\[y\\]">>
    /\ output = <<"1<x>[y]">>

-----------------------------------------------------------------------------
(* Comments: templates of whole lines, one of them a comment that holds a  *)
(* placeholder; explicit and bare values.                                  *)

PiecesComments == {"<a>\n", "#<x>\n", "<b>\n"}
TokensComments == {"a=1", "b=2", "3"}

InitComments == InitWith(PiecesComments, TokensComments)
SpecComments == InitComments /\ [][Next]_vars

\* The lines of the template that are not comments, and the format string
\* they make.
NonCommentPieces == SelectSeq(template, NotComment)
WithoutComments == JoinStr(NonCommentPieces, "")

\* What setting the arguments and building gives on a format string.
RunOf(format_string_) ==
    LET Built(b) == [error |-> b.error, output |-> b.output]
        Set(a) == IF a.error # "" THEN [error |-> a.error, output |-> <<>>]
                  ELSE Built(SnippetBuild(format_string_, a.data))
    IN  Set(SnippetSetArguments(format_string_, <<>>, argv))

\* The number of lines up to the k-th of the template that are not comments.
RECURSIVE NonCommentsUpTo(_)
NonCommentsUpTo(k) ==
    IF k = 0 THEN 0
    ELSE NonCommentsUpTo(k - 1) + (IF IsComment(template[k]) THEN 0 ELSE 1)

\* An output of the template without its comments, with the comment lines
\* put back where the template has them.
WithComments(row) ==
    LET Lines(lines) ==
            JoinStr([k \in 1..Len(template) |->
                         IF IsComment(template[k]) THEN StripEnd(template[k])
                         ELSE lines[NonCommentsUpTo(k)]], linesep)
    IN  Lines(SplitLines(row))

\* C12: a line that starts with # is scanned by no operation and is
\* reproduced unchanged in every output, and the placeholders of the other
\* lines are substituted at their positions: a run gives what the run on
\* the template without its comment lines gives, with the comment lines put
\* back.
C12_CommentLinesAreInert ==
    LET Same(r) ==
            /\ error = r.error
            /\ output = IF NonCommentPieces = <<>> /\ r.error = ""
                        THEN <<WithComments("")>>
                        ELSE [i \in 1..Len(r.output) |-> WithComments(r.output[i])]
    IN  BuildRan => Same(RunOf(WithoutComments))

\* C12: a build that reproduced a comment line between two substituted
\* lines.
C12_CommentBetweenSubstitutedLines ==
    /\ pc = "built"
    /\ template = <<"<a>\n", "#<x>\n", "<b>\n">>
    /\ output = <<"1\n#<x>\n2">>

-----------------------------------------------------------------------------
(* Plain: format strings without a placeholder, made of text, an optional  *)
(* section, a backslash, angle brackets, a line break and the character    *)
(* that stands in for an escaped opener; no values.                        *)

PiecesPlain == {"ab", "[d]", "\\", "<", ">", "\n", SO}
TokensPlain == {}

InitPlain == InitWith(PiecesPlain, TokensPlain)
SpecPlain == InitPlain /\ [][Next]_vars

\* The string holds an opening angle bracket with a closing one after it.
HasAnglePair(s) ==
    \E i \in 0..(Len(s) - 1) : \E j \in (i + 1)..(Len(s) - 1) :
        Char(s, i) = "<" /\ Char(s, j) = ">"

\* One line of text without square brackets, without escaped angle brackets,
\* without a pair of angle brackets and without chr(14) and chr(15).
PlainText(s) ==
    /\ s # ""
    /\ \A i \in 0..(Len(s) - 1) : Char(s, i) \notin {"[", "]", "\n", SO, SI}
    /\ Find(s, "\\<") < 0
    /\ Find(s, "\\>") < 0
    /\ ~HasAnglePair(s)

\* C13, as stated: a build of a format string without placeholders, with no
\* values assigned, returns one output, the format string.
C13_NoPlaceholdersGivesInput ==
    BuildRan => pc = "built" /\ output = <<format_string>>

\* C13, amended: the same for a format string that is one non-empty line
\* without square brackets, escaped angle brackets, a pair of angle
\* brackets, chr(14) or chr(15).
C13_PlainLineGivesInput ==
    (BuildRan /\ PlainText(format_string)) => pc = "built" /\ output = <<format_string>>

\* C13: a build of a plain line that holds a lone angle bracket and a
\* backslash.
C13_PlainLineBuilt ==
    /\ pc = "built"
    /\ template = <<"ab", "<", "\\">>
    /\ PlainText(format_string)
    /\ output = <<"ab<\\">>

-----------------------------------------------------------------------------
(* Assign: argument lists of an explicitly named value, a named file, a    *)
(* bare value, a bare list literal and an empty token, one longer than     *)
(* elsewhere so that two bare values can follow a named one.               *)

PiecesAssign == {"<a>", " <b>"}
TokensAssign == {"a=1", "c:vals.txt", "3", "\\(5 6\\)", ""}

InitAssign ==
    InitOf(SeqsUpTo(PiecesAssign, MaxPieces - 1) \ {<<>>}, SeqsUpTo(TokensAssign, MaxArgs + 1))
SpecAssign == InitAssign /\ [][Next]_vars

\* A token of the shape name=value or name:file, and its name.
IsExplicit(token) == Find(token, "=") > 0 \/ Find(token, ":") > 0
ExplicitName(token) == Slice(token, 0, FirstAt(token, 0, {"=", ":"}))

\* The values a token carries: the value after =, the lines of the file
\* after :, the items of a list literal, the token itself otherwise.
TokenValues(token) ==
    IF token = "\\(5 6\\)" THEN <<"5", "6">>
    ELSE IF Find(token, "=") > 0 THEN <<TokenValue(token)>>
    ELSE IF Find(token, ":") > 0
    THEN SplitLines(ReadFile(Slice(token, Find(token, ":") + 1, Len(token))))
    ELSE <<token>>

\* The position of the first explicitly named token of argv, 0 if none.
FirstExplicit ==
    LET Least(named) == IF named = {} THEN 0
                        ELSE CHOOSE i \in named : \A j \in named : i <= j
    IN  Least({i \in 1..Len(argv) : IsExplicit(argv[i])})

RECURSIVE RouteToNamed(_, _, _)
\* The tokens appended in order, each to the name it carries or else to
\* the name carried last.
RouteToNamed(d, tokens, current) ==
    LET To(name) == RouteToNamed(AppendItems(d, name, TokenValues(tokens[1])),
                                 Tail(tokens), name)
    IN  IF tokens = <<>> THEN d
        ELSE To(IF IsExplicit(tokens[1]) THEN ExplicitName(tokens[1]) ELSE current)

\* What the tokens before the first named one leave in data, and the
\* tokens from the first named one on.
DataBeforeNamed ==
    SnippetSetArguments(format_string, <<>>, SubSeq(argv, 1, FirstExplicit - 1)).data
FromNamed == SubSeq(argv, FirstExplicit, Len(argv))

NonEmptyToken(token) == token # ""

-----------------------------------------------------------------------------
(* Queue: templates of two names and a reserved name, a name possibly      *)
(* referenced twice; bare values only.                                     *)

PiecesQueue == {"<a>", " <b>", " <date>"}
TokensQueue == {"1", "2", "3"}

InitQueue == InitOf(Templates(PiecesQueue), SeqsUpTo(TokensQueue, MaxArgs + 1))
SpecQueue == InitQueue /\ [][Next]_vars

RECURSIVE UnsetQueueFrom(_, _)
\* The names the pieces reference, each once, in order of first appearance,
\* the reserved names left out.
UnsetQueueFrom(pieces, seen) ==
    LET Named(name) ==
            IF name \in seen \cup ReservedPlaceholderNames
            THEN UnsetQueueFrom(Tail(pieces), seen)
            ELSE <<name>> \o UnsetQueueFrom(Tail(pieces), seen \cup {name})
    IN  IF pieces = <<>> THEN <<>> ELSE Named(PieceName(pieces[1]))

UnsetQueue == UnsetQueueFrom(template, {})

RECURSIVE RouteToQueue(_, _, _)
\* The k-th token appended to the k-th entry of the queue, the tokens after
\* the last entry to the last entry, none when the queue is empty.
RouteToQueue(d, tokens, k) ==
    IF tokens = <<>> \/ UnsetQueue = <<>> THEN d
    ELSE RouteToQueue(AppendItems(d, UnsetQueue[Min(k, Len(UnsetQueue))], <<tokens[1]>>),
                      Tail(tokens), k + 1)

\* C15: with no named token seen, the k-th bare token is appended to the
\* k-th entry of the queue of unset placeholders, which lists each name the
\* template references that is not assigned and not reserved once, in order
\* of first appearance; the tokens after the queue is exhausted go to the
\* placeholder used last; with an empty queue the tokens are dropped.
C15_BareTokensFollowTheQueue ==
    pc = "arguments" => data = RouteToQueue(<<>>, argv, 1)

\* C15: three bare tokens on a template of two names around a reserved
\* one: the third went to the placeholder used last.
C15_QueueExhausted ==
    /\ pc = "arguments"
    /\ template = <<"<a>", " <date>", " <b>">>
    /\ argv = <<"1", "2", "3">>
    /\ data = <<[k |-> "a", v |-> <<"1">>], [k |-> "b", v |-> <<"2", "3">>]>>

-----------------------------------------------------------------------------
(* Tokens: the shapes of a data_values token: a name with a value or a     *)
(* file, a separator after text that is no name, a second separator, no    *)
(* name before the separator, a missing file, a line break.                *)

PiecesTokens == {"<q>"}
TokensTokens == {"a=1", "A:vals.txt", "a b=c", "a=b:c", "=x", "a:no", "b\nc"}

InitTokens == InitWith(PiecesTokens, TokensTokens)
SpecTokens == InitTokens /\ [][Next]_vars

\* A token as C16 states it: split at its first = or :.
ClaimedSplit(token) ==
    LET At(p) == IF p < Len(token)
                 THEN [name |-> Slice(token, 0, p), mode |-> Char(token, p),
                       rest |-> Slice(token, p + 1, Len(token))]
                 ELSE [name |-> "", mode |-> "", rest |-> token]
    IN  At(FirstAt(token, 0, {"=", ":"}))

\* The length of the longest run of word characters the token starts with.
WordRun(token) ==
    LET runs == {n \in 0..Len(token) :
                    \A i \in 0..(n - 1) : IsAlnumUnderscore(Char(token, i))}
    IN  CHOOSE n \in runs : \A m \in runs : m <= n

\* A token as amended: the name is the run of word characters at its start,
\* if = or : follows it; the rest and a bare value end at a line feed.
WordSplit(token) ==
    LET Line(w, stop) ==
            IF w > 0 /\ w < Len(token) /\ Char(token, w) \in {"=", ":"}
            THEN [name |-> Slice(token, 0, w), mode |-> Char(token, w),
                  rest |-> Slice(token, w + 1, Max(stop, w + 1))]
            ELSE [name |-> "", mode |-> "", rest |-> Slice(token, 0, stop)]
    IN  Line(WordRun(token), FirstAt(token, 0, {"\n"}))

RECURSIVE RouteSplit(_, _, _, _)
\* What assigning the tokens gives when each splits into split[token]: a
\* named value goes to its name, the lines of a named file to its name, a
\* bare value to the name given last, else to q, the one placeholder of the
\* template; a file that does not exist ends the assignment with an error.
RouteSplit(d, tokens, last, split) ==
    LET Named(t) ==
            IF t.mode = "=" THEN RouteSplit(AppendItems(d, Lower(t.name), <<t.rest>>),
                                            Tail(tokens), Lower(t.name), split)
            ELSE IF ~IsFile(t.rest)
            THEN [error |-> "Parsing placeholder '" \o t.name \o "' failed! The file '"
                            \o t.rest \o "' was not found!", data |-> d]
            ELSE RouteSplit(AppendItems(d, Lower(t.name), SplitLines(ReadFile(t.rest))),
                            Tail(tokens), Lower(t.name), split)
        Bare(t) == RouteSplit(AppendItems(d, IF last # "" THEN last ELSE "q", <<t.rest>>),
                              Tail(tokens), last, split)
        Token(t) == IF t.mode = "" THEN Bare(t) ELSE Named(t)
    IN  IF tokens = <<>> THEN [error |-> "", data |-> d]
        ELSE Token(split[tokens[1]])

\* The assignment went as the split of each token says.
AssignedAs(expected) ==
    /\ pc = "arguments" => expected.error = "" /\ data = expected.data
    /\ (pc \in {"arguments", "built", "failed"} /\ expected.error # "")
           => pc = "failed" /\ error = expected.error

\* C16, as stated: a token splits at its first = or :, the text before it
\* is the name and the character selects value mode or file mode; a token
\* without = and : is a bare value.
C16_TokenSplitsAtFirstSeparator ==
    AssignedAs(RouteSplit(<<>>, argv, "", [t \in TokensTokens |-> ClaimedSplit(t)]))

\* C16, amended: the name is the run of word characters the token starts
\* with, if that run is not empty and = or : follows it directly; the rest
\* up to the first line feed is the value or the file path; any other token
\* is a bare value up to its first line feed.
C16_TokenSplitsAfterLeadingWord ==
    AssignedAs(RouteSplit(<<>>, argv, "", [t \in TokensTokens |-> WordSplit(t)]))

\* C16: a token with a separator after text that is no name was taken as a
\* bare value, and a value with a second separator as one value.
C16_BareValueWithSeparator ==
    /\ pc = "arguments"
    /\ argv = <<"a b=c", "a=b:c">>
    /\ data = <<[k |-> "q", v |-> <<"a b=c">>], [k |-> "a", v |-> <<"b:c">>]>>

-----------------------------------------------------------------------------
(* Reserved: the reserved placeholder at root level and in an optional     *)
(* section, beside a placeholder with an unknown codec; a value assigned   *)
(* under the reserved name.                                                *)

PiecesReserved == {" <date>", "[ <b><date>]", " <a|nope>"}
TokensReserved == {"date=x", "b=2", "a=1"}

InitReserved == InitWith(PiecesReserved, TokensReserved)
SpecReserved == InitReserved /\ [][Next]_vars

ConflictError == "<date> is/are already defined in your profile!"

\* The user has assigned a value under the reserved name, the template
\* references the name, and the minified format string does: at root
\* level, or in the section, which is kept when b has a value.
DateAssigned == AssignedValues("date") # <<>>
DateReferenced == HasPiece(" <date>") \/ HasPiece("[ <b><date>]")
DateInMinified ==
    HasPiece(" <date>") \/ (HasPiece("[ <b><date>]") /\ AssignedValues("b") # <<>>)

\* No output holds the value the user assigned under the reserved name.
UserValueNotSubstituted ==
    \A i \in 1..Len(output) : Find(output[i], "x") < 0

\* C17, as stated: build fails with the conflict error whenever the
\* template references a reserved name under which the user has assigned a
\* value, and a user-assigned value is never substituted for a reserved
\* placeholder.
C17_ReservedNameConflictFails ==
    BuildRan =>
        /\ (DateAssigned /\ DateReferenced) => pc = "failed" /\ error = ConflictError
        /\ UserValueNotSubstituted

\* C17, amended: build fails with the conflict error exactly when the
\* minified format string references the reserved name, the user has
\* assigned a value under it and no codec of the minified format string is
\* unknown; a user-assigned value is never substituted.
C17_ReservedNameInMinifiedConflicts ==
    BuildRan =>
        /\ (pc = "failed" /\ error = ConflictError)
               <=> (DateAssigned /\ DateInMinified /\ ~HasPiece(" <a|nope>"))
        /\ UserValueNotSubstituted

\* C17: a build that failed on the conflict for a reserved name referenced
\* in a section that minification kept.
C17_ConflictInKeptSection ==
    /\ pc = "failed"
    /\ error = ConflictError
    /\ template = <<"[ <b><date>]">>
    /\ argv = <<"b=2", "date=x">>

-----------------------------------------------------------------------------
(* Import: main with a format string of -f, explicit values, and an        *)
(* environment of variables that are assigned already, new, upper-case,    *)
(* private, reserved, empty, or a list literal.                            *)

OptionsImport == {[NoOptions EXCEPT !.format_string = "<a> <b>[ <e>]"]}
TokensImport == {"a=1", "b=2"}
EntriesImport == {[k |-> "a", v |-> "9"], [k |-> "b", v |-> "\\(7 8\\)"],
                  [k |-> "e", v |-> "\\(5 6\\)"], [k |-> "E", v |-> "4"],
                  [k |-> "_e", v |-> "3"], [k |-> "date", v |-> "2"],
                  [k |-> "g", v |-> ""], [k |-> "h", v |-> "\\('0\\)"]}

InitImport == InitMain(Arguments(TokensImport),
                       Processes(OptionsImport, {Terminal}, EntriesImport))
SpecImport == InitImport /\ [][NextMain]_vars

\* The names of the variables of the environment.
EnvironNames == {environ[i].k : i \in 1..Len(environ)}

\* C18: import_environment leaves the value list of every key that Data
\* holds as it is, and the keys it adds are names of environment variables
\* that are lower-case throughout, do not start with an underscore and are
\* not reserved.
C18_ImportKeepsAssignedValues ==
    [][MainImportEnvironment =>
           /\ \A i \in 1..Len(data) :
                  HasKey(data', data[i].k) /\ Get(data', data[i].k) = data[i].v
           /\ \A i \in 1..Len(data') :
                  HasKey(data, data'[i].k)
                  \/ /\ data'[i].k \in EnvironNames
                     /\ Lower(data'[i].k) = data'[i].k
                     /\ Char(data'[i].k, 0) # "_"
                     /\ data'[i].k \notin ReservedPlaceholderNames]_vars

\* C18: an import that found a variable named as an assigned placeholder,
\* and one named as an unassigned placeholder.
C18_ImportedBesideAssigned ==
    /\ pc = "imported"
    /\ environ = <<[k |-> "a", v |-> "9"], [k |-> "e", v |-> "\\(5 6\\)"]>>
    /\ data = <<[k |-> "a", v |-> <<"1">>], [k |-> "e", v |-> <<"5", "6">>]>>

-----------------------------------------------------------------------------
(* Usage: main with every combination of --edit, -f, -t and the two list   *)
(* flags, standard input a terminal or piped, FORMAT_STRING set or not.    *)

OptionsUsage ==
    {[NoOptions EXCEPT !.edit = e, !.format_string = f, !.template_name = t,
                       !.list_templates = lt, !.list_codecs = lc] :
         e \in {"", "greet"}, f \in {"", "<a>\\n"}, t \in {"", "greet", "net"},
         lt \in BOOLEAN, lc \in BOOLEAN}
StdinsUsage == {Terminal, [isatty |-> FALSE, text |-> "<a> <b>\n"]}
EntriesUsage == {[k |-> "FORMAT_STRING", v |-> "<b>"], [k |-> "b", v |-> "7"]}
TokensUsage == {"1"}

InitUsage == InitMain(Arguments(TokensUsage),
                      Processes(OptionsUsage, StdinsUsage, EntriesUsage))
SpecUsage == InitUsage /\ [][NextMain]_vars

\* The combinations of the claim.
BothListFlags == parsed_args.list_codecs /\ parsed_args.list_templates
BothFormatSources == parsed_args.format_string # "" /\ parsed_args.template_name # ""
FormatSourceAndPipe ==
    (parsed_args.format_string # "" \/ parsed_args.template_name # "") /\ ~stdin.isatty
AListFlag == parsed_args.list_codecs \/ parsed_args.list_templates

\* main has ended with a usage error: exit code 1, nothing on standard
\* output, nothing resolved or built.
UsageError ==
    /\ pc = "exited"
    /\ exit_code = 1
    /\ stdout = <<>>
    /\ error \in {"--codec-list can not be used in combination with --template-list!",
                  "--format-string can not be used in conjunction with --template!",
                  "--format-string can not be used in conjunction with piped input!",
                  "--template can not be used in conjunction with piped input!"}
    /\ format_string = "" /\ output = <<>>

\* C19 as stated: an invocation that combines the two list flags, or -f with
\* -t, or one of -f and -t with piped standard input, ends with a usage
\* error, exit code 1, nothing on standard output.
C19_ConflictingOptionsFail ==
    (BothListFlags \/ BothFormatSources \/ FormatSourceAndPipe) /\ pc # "new"
        => UsageError

\* C19: without --edit, an invocation that combines the two list flags, or
\* that gives no list flag and combines -f with -t or one of them with
\* piped standard input, ends with a usage error at its first step.
C19_ConflictingOptionsFailInOrder ==
    (/\ parsed_args.edit = ""
     /\ BothListFlags \/ (~AListFlag /\ (BothFormatSources \/ FormatSourceAndPipe))
     /\ pc # "new")
        => UsageError

\* C19: -t with piped standard input has ended main.
C19_TemplateWithPipeFailed ==
    /\ parsed_args = [NoOptions EXCEPT !.template_name = "greet"]
    /\ ~stdin.isatty
    /\ exit_code = 1
    /\ error = "--template can not be used in conjunction with piped input!"

-----------------------------------------------------------------------------
(* Env: main with and without --env; the format string comes from -f, from *)
(* a template, from standard input, from FORMAT_STRING, or from nowhere.   *)

OptionsEnv ==
    {[NoOptions EXCEPT !.format_string = f, !.template_name = t, !.environment = env] :
         f \in {"", "<a> <b>"}, t \in {"", "greet"}, env \in BOOLEAN}
StdinsEnv == {Terminal, [isatty |-> FALSE, text |-> "<a>\n"]}
EntriesEnv == {[k |-> "FORMAT_STRING", v |-> "<b>"], [k |-> "b", v |-> "7"],
               [k |-> "c", v |-> "\\(8 9\\)"]}
TokensEnv == {"a=1", "2"}

InitEnv == InitMain(Arguments(TokensEnv), Processes(OptionsEnv, StdinsEnv, EntriesEnv))
SpecEnv == InitEnv /\ [][NextMain]_vars

\* --env is given, and neither --edit, a list flag nor a conflict ends main.
EnvironmentAsked ==
    /\ parsed_args.environment
    /\ parsed_args.edit = "" /\ ~AListFlag
    /\ ~(BothFormatSources \/ FormatSourceAndPipe)

\* The placeholders that are assigned or reserved.
AssignedOrReserved == {data[i].k : i \in 1..Len(data)} \cup ReservedPlaceholderNames

\* C20: with --env, and no --edit, list flag or conflict, main prints one
\* export line for every assigned or reserved placeholder and exits with
\* code 0 without building, whether or not there is a format string.
C20_EnvironmentAlwaysListed ==
    EnvironmentAsked /\ Exited
        => /\ exit_code = 0
           /\ ~BuildRan
           /\ Len(stdout) = Cardinality(AssignedOrReserved)
           /\ \A i \in 1..Len(stdout) : StartsWith(stdout[i], "export ")

\* C20: --env with a format string has listed an assigned, an imported and
\* the reserved placeholders.
C20_EnvironmentListed ==
    /\ parsed_args.environment
    /\ exit_code = 0
    /\ stdout = <<"export a=\"1\"", "export c=\"\\('8' '9'\\)\"",
                  "export date=\"20261103\"", "export date_time=\"20261103093000\"">>

-----------------------------------------------------------------------------
(* Print: main with format strings whose build fails at each of its        *)
(* stages, or succeeds, for some of the values.                            *)

OptionsPrint ==
    {[NoOptions EXCEPT !.format_string = f] :
         f \in {"<a>\\n<b|nope>", "<a> <date>", "<a> <b>", "<a|join>", "<a>\\n#<a>",
                "<a>\\n< e>"}}
TokensPrint == {"a=1", "a=\\(2 '<x>'\\)", "date=3", "b=4"}

InitPrint == InitMain(Arguments(TokensPrint), Processes(OptionsPrint, {Terminal}, {}))
SpecPrint == InitPrint /\ [][NextMain]_vars

\* C21: main prints a line of the expansion only after build has returned:
\* when build raises, nothing has been printed and main exits with code 1;
\* what is printed are the lines of the outputs of a build without error.
C21_NothingPrintedWhenBuildFails ==
    /\ pc = "failed" => stdout = <<>> /\ exit_code = 1 /\ error # ""
    /\ stdout # <<>> => pc = "built" /\ error = "" /\ stdout = PrintedLines(output)

\* C21: a build whose outputs were processed and then found to hold an
\* unmatched placeholder has failed.
C21_ProcessedOutputFailed ==
    /\ pc = "failed"
    /\ parsed_args.format_string = "<a>\\n< e>"
    /\ argv = <<"a=\\(2 '<x>'\\)">>
    /\ error = "Invalid placeholder format: < e>"

-----------------------------------------------------------------------------
(* Codecs: the construction of Config over codecs directories that hold    *)
(* plugins that load, a plugin that does not, a plugin in a subdirectory,  *)
(* and a file that is no plugin.                                           *)

FilesCodecs ==
    {[dir |-> "", name |-> "squote", ext |-> ".py", valid |-> TRUE],
     [dir |-> "", name |-> "capfirst", ext |-> ".py", valid |-> TRUE],
     [dir |-> "", name |-> "broken", ext |-> ".py", valid |-> FALSE],
     [dir |-> "quote", name |-> "dquote", ext |-> ".py", valid |-> TRUE],
     [dir |-> "", name |-> "notes", ext |-> ".txt", valid |-> FALSE]}

\* The listings of at most MaxFiles of the files, each file once.
ListingsCodecs ==
    {files \in SeqsUpTo(FilesCodecs, MaxFiles) :
         \A i, j \in 1..Len(files) : i # j => files[i] # files[j]}

InitCodecs ==
    /\ InitSnippet({<<>>}, {<<>>}, {<<NoOptions, Terminal, <<>>>>})
    /\ InitDisk({BundledFiles})
    /\ codec_files \in ListingsCodecs
    /\ config = NoConfig
SpecCodecs == InitCodecs /\ [][NextConfig]_vars

\* The plugins among the files, and those of them that load.
IsPlugin(file) == file.ext = ".py"
Loads(file) == IsPlugin(file) /\ file.dir = "" /\ file.valid
NamesOf(files) == {files[i].name : i \in 1..Len(files)}

\* C22: the construction of Config completes whatever plugin fails to load:
\* the registry holds every plugin that loads and none that fails, and a
\* warning is logged for each one that fails.
C22_FailedCodecIsSkipped ==
    config.state # "new"
        => /\ config.state = "constructed"
           /\ config.codecs = NamesOf(SelectSeq(codec_files, Loads))
           /\ Len(config.warnings)
                  = Len(SelectSeq(codec_files, LAMBDA f : IsPlugin(f) /\ ~Loads(f)))

\* C22: a plugin between two others has failed to load, and the warning
\* was logged.
C22_CodecFailedToLoad ==
    /\ config.state # "new"
    /\ NamesOf(codec_files) = {"squote", "broken", "capfirst"}
    /\ codec_files[2].name = "broken"
    /\ config.warnings = <<"Loading codec broken failed!">>

-----------------------------------------------------------------------------
(* Edit: main with --edit for a bundled template, a template of the home   *)
(* root, a new name, and names that lead out of the home root with "..";   *)
(* with and without -f.                                                    *)

OptionsEdit ==
    {[NoOptions EXCEPT !.edit = e, !.format_string = f] :
         e \in {"", "greet", "new", "net/../greet",
                "../../../app/.snippet/templates/new",
                "../../../app/.snippet/templates/greet"},
         f \in {"", "<x>"}}
TokensEdit == {"x=1", "a=2"}

\* The bundled templates alone, and with a template greet of the home root.
DisksEdit == {BundledFiles, WriteFile(BundledFiles, "/home/.snippet/templates/greet", "<h>")}

InitEdit ==
    /\ InitSnippet({<<>>}, Arguments(TokensEdit), Processes(OptionsEdit, {Terminal}, {}))
    /\ InitConfigured
    /\ InitDisk(DisksEdit)
SpecEdit == InitEdit /\ [][NextMain]_vars

\* A path below a templates root.
IsUnder(path, root) == StartsWith(path, root \o "/")

\* The file of the home root that the name of --edit stands for.
HomeTemplateFile == SafeJoinPath(HomeTemplatePath, parsed_args.edit)
AppTemplateFile == SafeJoinPath(AppTemplatePath, parsed_args.edit)

\* C23: create_or_edit_template writes no file of the application root and
\* no file but the one of the home root that the name stands for; a
\* template of the home root is opened in the editor as it is, also when a
\* format string is given; a template of the application root alone is
\* copied to the home root before anything else.
C23_OnlyTheHomeFileIsWritten ==
    [][MainOptions /\ parsed_args.edit # ""
           => /\ \A path \in DOMAIN disk : path \in DOMAIN disk'
              /\ \A path \in DOMAIN disk' :
                     IsUnder(path, AppTemplatePath) \/ path # HomeTemplateFile
                         => path \in DOMAIN disk /\ disk'[path] = disk[path]
              /\ HomeTemplateFile \in DOMAIN disk
                     => disk' = disk /\ (exit_code' = 0 => editor_calls' = <<HomeTemplateFile>>)
              /\ HomeTemplateFile \notin DOMAIN disk /\ exit_code' = 0
                     /\ AppTemplateFile \in DOMAIN disk /\ parsed_args.format_string = ""
                     => /\ HomeTemplateFile \in DOMAIN disk'
                        /\ disk'[HomeTemplateFile] = disk[AppTemplateFile]]_vars

\* C23: a bundled template was copied to the home root and the copy opened
\* in the editor.
C23_BundledTemplateCopied ==
    /\ parsed_args.edit = "greet" /\ parsed_args.format_string = ""
    /\ exit_code = 0
    /\ "/home/.snippet/templates/greet" \in DOMAIN disk
    /\ disk["/home/.snippet/templates/greet"] = "<a> <b>"
    /\ disk["/app/.snippet/templates/greet"] = "<a> <b>"
    /\ editor_calls = <<"/home/.snippet/templates/greet">>

-----------------------------------------------------------------------------
(* Brackets: templates of openers, closers, escaped brackets and text, in  *)
(* every order; no values.                                                 *)

PiecesBrackets == {"[a", "b]", "[", "]", "\\]", "\\[c"}

InitBrackets == InitOf(Templates(PiecesBrackets), {<<>>})
SpecBrackets == InitBrackets /\ [][Next]_vars

\* The number of brackets c among the first k characters of s that no
\* backslash escapes.
Unescaped(s, k, c) ==
    Cardinality({i \in 0..(k - 1) : Char(s, i) = c /\ Char(s, i - 1) # "\\"})

\* Some closer of s has no opener before it that is still open.
UnmatchedCloser(s) ==
    \E k \in 1..Len(s) : Unescaped(s, k, "]") > Unescaped(s, k, "[")

\* The openers of s that are not closed, and as many closers.
Unclosed(s) == Unescaped(s, Len(s), "[") - Unescaped(s, Len(s), "]")
Closers(n) == JoinStr([i \in 1..n |-> "]"], "")

\* C24: ParenthesesParser.parse raises 'Unbalanced parentheses!' exactly
\* when a closer that is not escaped has no open opener before it; openers
\* that are never closed raise nothing, and the result is the one of the
\* input with the missing closers at its end.  A build of the format string
\* fails with that message in the same cases.
C24_OnlyUnmatchedCloserRaises ==
    LET Closed(parsed, closed) ==
            /\ parsed.unbalanced <=> UnmatchedCloser(format_string)
            /\ ~parsed.unbalanced
                   => ~closed.unbalanced /\ parsed.components = closed.components
        Parsed(parsed) ==
            Closed(parsed,
                   IF parsed.unbalanced THEN parsed
                   ELSE ParseParentheses(format_string \o Closers(Unclosed(format_string))))
    IN  /\ pc # "new" => Parsed(ParseParentheses(format_string))
        /\ BuildRan => (error = "Unbalanced parentheses!" <=> UnmatchedCloser(format_string))
        /\ BuildRan => error \in {"", "Unbalanced parentheses!"}

\* C24: a format string with two openers that are never closed and an
\* escaped closer was built.
C24_UnclosedOpenersBuilt ==
    /\ pc = "built"
    /\ format_string = "[a[\\]"
    /\ output = <<"a]">>

-----------------------------------------------------------------------------
(* Offsets: placeholders before and after escaped angle brackets, with and *)
(* without a default, and a comment line.                                  *)

PiecesOffsets == {"\\<x\\>", "<a>", " <b='2'>", "#c\n"}
TokensOffsets == {"a=1"}

InitOffsets == InitWith(PiecesOffsets, TokensOffsets)
SpecOffsets == InitOffsets /\ [][Next]_vars

\* The string the DataBuilder gives to PlaceholderFormatParser.parse.
Scanned == RemoveComments(minified)

\* The text of Scanned from start to end is the token of a placeholder
\* called name.
IsTokenOf(name, start, end) ==
    LET Same(m) == m.ok /\ m.end = end /\ m.name = name
    IN  Same(ParsePlaceholderAt(Scanned, start))

\* C25: for every placeholder parsed from the minified string, the text
\* from its start to its end is its token, also after escaped angle
\* brackets, and the ranges of two placeholders do not overlap.
C25_OffsetsAreThoseOfTheToken ==
    BuildRan
        => /\ \A i \in 1..Len(placeholders) :
                  IsTokenOf(placeholders[i].name, placeholders[i].start, placeholders[i].end)
           /\ \A i, j \in 1..Len(placeholders) :
                  i < j => placeholders[i].end <= placeholders[j].start

\* C25: a placeholder was parsed from a minified string that holds escaped
\* angle brackets before its token.
C25_TokenAfterEscapedBrackets ==
    /\ BuildRan
    /\ minified = "\\<x\\><a>"
    /\ Len(placeholders) = 1
    /\ placeholders[1].name = "a"

-----------------------------------------------------------------------------
(* Nested: templates of a root text, openers and closers that nest, each   *)
(* section with a placeholder of its own; values that are set, empty or    *)
(* missing.                                                                *)

PiecesNested == {"r", "[ <b>", "[ <c>", "] <d='4'>", "]"}
TokensNested == {"b=2", "c=3", "c="}

InitNested == InitWith(PiecesNested, TokensNested)
SpecNested == InitNested /\ [][Next]_vars

\* The text of a piece without the bracket it starts with.
TextNested(piece) ==
    IF Char(piece, 0) \in {"[", "]"} THEN Slice(piece, 1, Len(piece)) ELSE piece

RECURSIVE SectionsNested(_, _)
\* For the pieces from the k-th on, the sections each one's text lies in:
\* the openers (their index in the template) that are open after its
\* bracket; open holds those open before the k-th piece, innermost last.
SectionsNested(k, open) ==
    LET piece == template[k]
        now == IF Char(piece, 0) = "[" THEN Append(open, k)
               ELSE IF Char(piece, 0) = "]" THEN SubSeq(open, 1, Len(open) - 1)
               ELSE open
    IN  IF k > Len(template) THEN <<>>
        ELSE <<now>> \o SectionsNested(k + 1, now)

\* The placeholder in the text of a piece does not resolve in a section:
\* it has no default and no value, or the empty value alone.
UnresolvedNested(piece) ==
    \/ piece = "[ <b>" /\ AssignedValues("b") \in {<<>>, <<"">>}
    \/ piece = "[ <c>" /\ AssignedValues("c") \in {<<>>, <<"">>}

\* The minified template: the text of every piece none of whose sections
\* has an unresolved placeholder in its own text.
MinifiedNested ==
    LET Own(sections, s) ==
            {k \in 1..Len(template) : sections[k] # <<>> /\ sections[k][Len(sections[k])] = s}
        Dropped(sections, s) == \E k \in Own(sections, s) : UnresolvedNested(template[k])
        Kept(sections, k) ==
            \A i \in 1..Len(sections[k]) : ~Dropped(sections, sections[k][i])
        Texts(sections) ==
            JoinStr([k \in 1..Len(template) |->
                         IF Kept(sections, k) THEN TextNested(template[k]) ELSE ""], "")
    IN  Texts(SectionsNested(1, <<>>))

\* C26: a section whose own text holds an unresolved or empty placeholder
\* is dropped with everything nested in it, and nothing else is: the
\* sections around it and the root text stay.
C26_DropStaysInItsSection ==
    BuildRan /\ ~UnmatchedCloser(format_string) => minified = MinifiedNested

\* C26: a nested section was dropped for its empty value and the section
\* around it, with text after the nested one, was kept.
C26_NestedDroppedParentKept ==
    /\ BuildRan
    /\ template = <<"[ <b>", "[ <c>", "] <d='4'>">>
    /\ argv = <<"b=2", "c=">>
    /\ minified = " <b> <d='4'>"

-----------------------------------------------------------------------------
(* Log: main run with -q, with -d, with both or with neither, on options   *)
(* and format strings some of which end in a fatal error.                  *)

OptionsLog ==
    {[NoOptions EXCEPT !.format_string = f, !.list_codecs = l, !.list_templates = l,
                       !.verbose = v, !.debug = d] :
        f \in {"", "<a>", "<a> <b>", "<a>]", "<a|nope>"}, l \in BOOLEAN,
        v \in BOOLEAN, d \in BOOLEAN}
TokensLog == {"a=1", "=2"}

InitLog == InitMain(Arguments(TokensLog), Processes(OptionsLog, {Terminal}, {}))
SpecLog == InitLog /\ [][NextMain]_vars

\* main was run with -q and without -d.
Quiet == ~parsed_args.verbose /\ ~parsed_args.debug

\* C27: a fatal error ends main with the exit code 1; its message is
\* written to standard error, after the ERROR: tag, unless main runs with
\* -q and without -d, and then nothing is written.  Nothing is written
\* without a fatal error either.
C27_ErrorWrittenUnlessQuiet ==
    /\ error # "" => /\ exit_code = 1
                     /\ Quiet => logged = <<>>
                     /\ ~Quiet => logged = <<"\\033[31mERROR: \\033[0m" \o error>>
    /\ error = "" => logged = <<>>

\* C27: a build failed under -q: exit code 1 and nothing written.
C27_QuietBuildFailed ==
    /\ pc = "failed"
    /\ Quiet
    /\ error = "Missing data for <b>!"
    /\ exit_code = 1
    /\ logged = <<>>

-----------------------------------------------------------------------------
(* Fallback: templates of several lines, with an opener left open on a     *)
(* line, where a root-level placeholder of a line may have no value.       *)

PiecesFallback == {"[x\n", "<a>", "<p>", "#<p='1'>\n", "<P>\\<"}
TokensFallback == {"a=#", "p=2"}

InitFallback == InitWith(PiecesFallback, TokensFallback)
SpecFallback == InitFallback /\ [][Next]_vars

\* The minifier emits the whole format string for the line: a root-level
\* placeholder of the line has neither a value nor a default.
FallsBack(line) ==
    /\ NotComment(line)
    /\ ~ParseParentheses(line).unbalanced
    /\ RemoveOptionals(ParseParentheses(line).components, Parameters(data), TRUE, <<>>).gone

\* The minifier took its fallback for a line of the format string.
FellBack ==
    \E i \in 1..Len(SplitLines(format_string)) : FallsBack(SplitLines(format_string)[i])

-----------------------------------------------------------------------------
(* ReservedDefault: the reserved placeholder with a default (a value, the  *)
(* empty string, a list literal without items) at root level, beside a     *)
(* placeholder with an unknown codec; no value is assigned under the       *)
(* reserved name.                                                          *)

PiecesReservedDefault ==
    {" <date='x'>", " <date=''>", " <date='\\(\\)'>", " <a|nope>", "[ <b>]"}
TokensReservedDefault == {"b=2"}

InitReservedDefault == InitWith(PiecesReservedDefault, TokensReservedDefault)
SpecReservedDefault == InitReservedDefault /\ [][Next]_vars

\* The template holds the reserved placeholder with a default at root
\* level; with a default that Data.append makes a value of.
DateDefaulted ==
    HasPiece(" <date='x'>") \/ HasPiece(" <date=''>") \/ HasPiece(" <date='\\(\\)'>")
DateDefaultIsValue == HasPiece(" <date='x'>") \/ HasPiece(" <date=''>")

\* C29, as stated: the default on a placeholder with a reserved name is
\* written into data when the builder is constructed, and the build of a
\* template with such a placeholder at root level fails with the conflict
\* error though no value is assigned under the name.
C29_ReservedDefaultFails ==
    (BuildRan /\ DateDefaulted) =>
        /\ HasKey(data, "date")
        /\ pc = "failed"
        /\ error = ConflictError

\* C29, amended: the default is written into data unless it is the list
\* literal without items, and the build then fails with the conflict error
\* unless a codec of the template is unknown; with the empty list literal
\* alone nothing is written and no conflict is raised.
C29_ReservedDefaultValueFails ==
    BuildRan =>
        /\ HasKey(data, "date") <=> DateDefaultIsValue
        /\ (pc = "failed" /\ error = ConflictError)
               <=> (DateDefaultIsValue /\ ~HasPiece(" <a|nope>"))

\* C29: the build failed on the conflict for the empty default, with no
\* value assigned at all.
C29_EmptyDefaultConflicts ==
    /\ pc = "failed"
    /\ error = ConflictError
    /\ template = <<" <date=''>">>
    /\ argv = <<>>
    /\ data = <<[k |-> "date", v |-> <<"">>]>>

-----------------------------------------------------------------------------
(* FirstDefault: occurrences of one name with a default (a value, the empty    *)
(* string, a list literal), without one, at root level and in sections,    *)
(* one of which is dropped unless b has a value; no value is assigned      *)
(* under the name.                                                         *)

PiecesFirstDefault == {"<a='1'>", "[ <b> <a='2'>]", " <a>", "<a=''>", "<a='\\(3 4\\)'>"}
TokensFirstDefault == {"b=2"}

InitFirstDefault == InitWith(PiecesFirstDefault, TokensFirstDefault)
SpecFirstDefault == InitFirstDefault /\ [][Next]_vars

\* The default a piece declares for a, "none" when it declares none.
DefaultIn(piece) ==
    CASE piece = "<a='1'>" -> "1"
      [] piece = "[ <b> <a='2'>]" -> "2"
      [] piece = "<a=''>" -> ""
      [] piece = "<a='\\(3 4\\)'>" -> "\\(3 4\\)"
      [] OTHER -> "none"

\* The occurrences of a with a default, in template order; the default of
\* the first one.
Defaulted == SelectSeq(template, LAMBDA piece : DefaultIn(piece) # "none")
FirstDefault == DefaultIn(Defaulted[1])

\* What a piece stands for in an output when a has the value: a section
\* is dropped for an empty value of a, and for b without a value.
RenderFirstDefault(piece, value) ==
    CASE piece = " <a>" -> " " \o value
      [] piece = "[ <b> <a='2'>]" ->
             IF value # "" /\ AssignedValues("b") # <<>> THEN " 2 " \o value ELSE ""
      [] OTHER -> value

\* Every occurrence that survives holds the value, in every output; there
\* is no output only when nothing of the template survives.
AllSubstituted(value) ==
    LET Rendered(text) ==
            /\ output = <<>> => text = ""
            /\ \A i \in 1..Len(output) : output[i] = text
    IN  /\ pc = "built"
        /\ Rendered(JoinStr([k \in 1..Len(template) |->
                                 RenderFirstDefault(template[k], value)], ""))

\* C30, as stated: with defaults on occurrences of a name that has no
\* value assigned, the one value added to data is the default of the first
\* defaulted occurrence in template order, and every surviving occurrence
\* is substituted with it.
C30_FirstDefaultIsTheValue ==
    (BuildRan /\ Defaulted # <<>>) =>
        /\ Get(data, "a") = <<FirstDefault>>
        /\ AllSubstituted(FirstDefault)

\* C30, amended: the same, when the first default is no list literal.
C30_FirstPlainDefaultIsTheValue ==
    (BuildRan /\ Defaulted # <<>> /\ FirstDefault # "\\(3 4\\)") =>
        /\ Get(data, "a") = <<FirstDefault>>
        /\ AllSubstituted(FirstDefault)

\* C30: the first default stands in a section that is dropped, and the
\* occurrence at root level, with a default of its own, holds it.
C30_DefaultOfDroppedSection ==
    /\ pc = "built"
    /\ template = <<"[ <b> <a='2'>]", " <a>", "<a='1'>">>
    /\ argv = <<>>
    /\ data = <<[k |-> "a", v |-> <<"2">>]>>
    /\ output = <<" 22">>

=============================================================================
